---- MODULE Spec2Model ----
(***************************************************************************)
(* Enrichment pipeline of the arxiv-3d scripts: the row-update helpers,    *)
(* the stage 1 identifier resolver, the Semantic Scholar fetcher with its  *)
(* cooldown, the batch enricher, the single-row enricher and the citation  *)
(* rebuilder.  Every script is a sequential batch job; each is modelled by *)
(* its own specification over its own variables, the variables of the      *)
(* other scripts staying parked.                                           *)
(***************************************************************************)
EXTENDS Integers, Sequences, FiniteSets, TLC

VARIABLES
    script,     \* which script's update_row acts on the row
    row,        \* one row of the papers table (column -> value)
    call        \* the arguments and the result of the last update_row call

\* fetch_abstracts_s2_arxiv.py, fetch_s2_by_doi
VARIABLES
    global_delay,       \* module global: pacing delay, in centiseconds
    consecutive_429,    \* module global: the 429 burst counter
    fpc,                \* "idle" | "loop" (about to request) | "await"
    attempt,            \* local attempt counter of the running call
    doi,                \* the DOI of the running (or last) call
    slept,              \* time.sleep total of the last step, in centiseconds
    fresult,            \* what the last finished call returned
    resp,               \* the answer to the last request (status or error)
    since               \* history: the DOI whose call received the first 429
                        \* counted in consecutive_429

\* stage_1_enrich_identifiers.py, main
VARIABLES
    s1db,       \* papers table: row number -> identifier columns
    s1rows,     \* `rows`: the stage 0 records, one per row, same order
    s1pc,       \* "pass1" | "pass2" | "done"
    s1i,        \* pass 1: rows handled; pass 2: `start` of the next batch
    s1work      \* `work` and `idx`: <<use_id, row number>> per candidate

\* extract_semantic_scholar.py, main run twice over one papers table
VARIABLES
    exdb,       \* papers table: rowid -> row
    exans,      \* what each source answers to each request, once asked
    exrun,      \* the number of the running (or last) run
    expos,      \* rowid of the last row the cursor yielded
    expc,       \* "run" | "crashed" | "finished"
    exn,        \* `n`: rows yielded by yield_missing_papers in this run
    exupd,      \* update_row calls of this run
    exdb1,      \* history: the table as the previous run left it
    exlog       \* history: the last enrich_one (row, sources asked, writes)

\* OLD/enrich_abstracts_batch.py, one run of main
VARIABLES
    odb,        \* papers table: rowid -> row
    opc,        \* where main is: "start" | "s2batch" | "s2write" |
                \* "oabatch" | "oawrite" | "done" | "aborted"
    omissing,   \* `missing`
    opart,      \* `oa_pids`, `s2_hex`, `unknown`
    oquery,     \* `s2_query_ids`
    okey,       \* the id_groups key batch_openalex_by_ids is at
    ogrp,       \* the number of the group (chunk) to request next
    oattempt,   \* `attempt` of the running safe_request
    oout,       \* `s2_results`: the dict `out`, in insertion order
    ofallback,  \* `fallback_dois`, `fallback_arxiv`
    ooa,        \* `oa_abs`: the dict `results`, in insertion order
    oupdated    \* `updated`

\* rebuild_citations_openalex.py, runs of main without --reset
VARIABLES
    rcit,           \* the committed rows of `citations`, in insertion order
    rtxn,           \* rows inserted by executemany and not yet committed
    rpc,            \* "idle" | "chunk" | "batch" | "single" | "rows" | "commit"
    rrun,           \* the number of runs started
    rlast,          \* how the last run ended: "none" | "completed" | "interrupted"
    done_sources,   \* `done_sources`
    roffset,        \* `offset` of iter_paper_id_chunks
    remaining_ids,  \* `remaining_ids`
    rbatch,         \* `batch_idx`
    rsingle,        \* position of `u` in the per-ID fallback loop
    rresults,       \* `results`
    rreq            \* history: the paperIds of the HTTP request of the last step

\* one call of an HTTP helper: safe_request (OLD/enrich_abstracts_batch.py),
\* safe_get_json / safe_post_json (stage 1), http_get / http_post_json
\* (stage 2), safe_get_json (import_openalex.py)
VARIABLES
    hfn,        \* the helper that is running
    hpc,        \* "loop" | "done"
    hattempt,   \* `attempt`
    hsent,      \* history: requests sent by this call
    hsleeps,    \* history: number of sleeps of this call
    hwait,      \* history: milliseconds slept in the last step (no jitter)
    hresp,      \* history: the last answer: status, Retry-After
    hresult     \* "none" | "returned" | the exception that left the call

rowVars == <<script, row, call>>
httpVars == <<hfn, hpc, hattempt, hsent, hsleeps, hwait, hresp, hresult>>

\* One pure function applied in two steps: the function, the position, the
\* input, the intermediate value and the result.
VARIABLES
    pfn,
    ppc,
    pin,
    pmid,
    pout

pureVars == <<pfn, ppc, pin, pmid, pout>>
rbVars == <<rcit, rtxn, rpc, rrun, rlast, done_sources, roffset, remaining_ids,
            rbatch, rsingle, rresults, rreq>>
oldVars == <<odb, opc, omissing, opart, oquery, okey, ogrp, oattempt, oout,
             ofallback, ooa, oupdated>>
exVars == <<exdb, exans, exrun, expos, expc, exn, exupd, exdb1, exlog>>
s1Vars == <<s1db, s1rows, s1pc, s1i, s1work>>
fetchVars ==
    <<global_delay, consecutive_429, fpc, attempt, doi, slept, fresult, resp,
      since>>

\* process_ai_metadata.py, runs of process_ai over one row of papers, and the
\* need predicate of the enrichment passes
VARIABLES
    arow,
    apc,
    aflags,
    asel,
    arun,
    alog,
    aneed

aiVars ==
    <<arow, apc, aflags, asel, arun, alog, aneed>>

\* Export of nodes.json and edges.json (build_frontend_json.py, Process_AI_Edges_v2.py)
VARIABLES
    egscript,
    egdb,
    egopts,
    egpc,
    egnodes,
    egedges,
    egout

egVars ==
    <<egscript, egdb, egopts, egpc, egnodes, egedges, egout>>

\* stage_2_fetch_abstracts_from_s2.py, one run of main
VARIABLES
    stdb,
    stwork,
    stpc,
    sti,
    stneed,
    stdb0,
    stlog

stVars ==
    <<stdb, stwork, stpc, sti, stneed, stdb0, stlog>>

vars ==
    <<rowVars, fetchVars, s1Vars, exVars, oldVars, rbVars, httpVars,
      pureVars, aiVars, egVars, stVars>>

\* What each script leaves alone: the variables of the other scripts.
notRowVars == <<fetchVars, s1Vars, exVars, oldVars, rbVars, httpVars,
    pureVars,
    aiVars,
    egVars,
    stVars>>
notFetchVars == <<rowVars, s1Vars, exVars, oldVars, rbVars, httpVars,
    pureVars,
    aiVars,
    egVars,
    stVars>>
notS1Vars == <<rowVars, fetchVars, exVars, oldVars, rbVars, httpVars,
    pureVars,
    aiVars,
    egVars,
    stVars>>
notExVars == <<rowVars, fetchVars, s1Vars, oldVars, rbVars, httpVars,
    pureVars,
    aiVars,
    egVars,
    stVars>>
notOldVars == <<rowVars, fetchVars, s1Vars, exVars, rbVars, httpVars,
    pureVars,
    aiVars,
    egVars,
    stVars>>
notRbVars == <<rowVars, fetchVars, s1Vars, exVars, oldVars, httpVars,
    pureVars,
    aiVars,
    egVars,
    stVars>>
notHttpVars == <<rowVars, fetchVars, s1Vars, exVars, oldVars, rbVars,
    pureVars,
    aiVars,
    egVars,
    stVars>>
notPureVars == <<rowVars, fetchVars, s1Vars, exVars, oldVars, rbVars,
    httpVars,
    aiVars,
    egVars,
    stVars>>
notAiVars ==
    <<rowVars, fetchVars, s1Vars, exVars, oldVars, rbVars, httpVars,
      pureVars,
    egVars,
    stVars>>
notEgVars ==
    <<rowVars, fetchVars, s1Vars, exVars, oldVars, rbVars, httpVars,
      pureVars, aiVars,
    stVars>>
notStVars ==
    <<rowVars, fetchVars, s1Vars, exVars, oldVars, rbVars, httpVars,
      pureVars, aiVars, egVars>>

(***************************************************************************)
(* Values.  SQL NULL and Python None are the reserved value NULL; a dict   *)
(* is a function whose DOMAIN is its set of keys; a list is a sequence.    *)
(***************************************************************************)
NULL == "NULL"

\* Python truthiness of an Optional[str]: None and "" are falsy.
Truthy(v) == v # NULL /\ v # ""

\* dict.get(k, default)
Get(d, k, default) == IF k \in DOMAIN d THEN d[k] ELSE default

\* Python `a or b`
Or(a, b) == IF Truthy(a) THEN a ELSE b

\* Python None where a dict is expected, and the empty dict: both falsy.
NoDict == <<>>

\* Python truthiness of a dict (or None)
TruthyDict(d) == DOMAIN d # {}

\* SQL COALESCE(a, b)
Coalesce(a, b) == IF a # NULL THEN a ELSE b

\* SQL NULLIF(a, b)
NullIf(a, b) == IF a = b THEN NULL ELSE a

\* str.strip() on the abstracts of the model: " " is the only one with
\* leading or trailing whitespace.
Strip(s) == IF s = " " THEN "" ELSE s

RECURSIVE JoinQuoted(_)
JoinQuoted(l) ==
    IF Len(l) = 0 THEN ""
    ELSE IF Len(l) = 1 THEN "\"" \o l[1] \o "\""
    ELSE "\"" \o l[1] \o "\", " \o JoinQuoted(Tail(l))

\* json.dumps of a list of strings
JsonDumps(l) == "[" \o JoinQuoted(l) \o "]"

\* UPDATE papers SET <updates> : the columns named by the dict are written.
SqlUpdate(r, updates) ==
    [c \in DOMAIN r |-> IF c \in DOMAIN updates THEN updates[c] ELSE r[c]]

\* A dict built from a set of <<key, value>> pairs with distinct keys.
Dict(pairs) ==
    [k \in {p[1] : p \in pairs} |-> (CHOOSE p \in pairs : p[1] = k)[2]]

(***************************************************************************)
(* Python str methods, on TLA+ strings (sequences of one-character         *)
(* strings).                                                               *)
(***************************************************************************)
CharAt(s, i) == SubSeq(s, i, i)

IsSpace(c) == c \in {" ", "\t", "\n", "\r"}

IsDigit(c) == c \in {"0", "1", "2", "3", "4", "5", "6", "7", "8", "9"}

LowerChar(c) ==
    CASE c = "A" -> "a" [] c = "B" -> "b" [] c = "C" -> "c" [] c = "D" -> "d"
      [] c = "E" -> "e" [] c = "F" -> "f" [] c = "G" -> "g" [] c = "H" -> "h"
      [] c = "I" -> "i" [] c = "J" -> "j" [] c = "K" -> "k" [] c = "L" -> "l"
      [] c = "M" -> "m" [] c = "N" -> "n" [] c = "O" -> "o" [] c = "P" -> "p"
      [] c = "Q" -> "q" [] c = "R" -> "r" [] c = "S" -> "s" [] c = "T" -> "t"
      [] c = "U" -> "u" [] c = "V" -> "v" [] c = "W" -> "w" [] c = "X" -> "x"
      [] c = "Y" -> "y" [] c = "Z" -> "z" [] OTHER -> c

RECURSIVE Lower(_)
\* str.lower()
Lower(s) ==
    IF Len(s) = 0 THEN "" ELSE LowerChar(CharAt(s, 1)) \o Lower(Tail(s))

\* str.startswith(p)
StartsWith(s, p) == Len(s) >= Len(p) /\ SubSeq(s, 1, Len(p)) = p

\* s[n:]
DropFirst(s, n) == SubSeq(s, n + 1, Len(s))

RECURSIVE LStrip(_)
LStrip(s) ==
    IF Len(s) > 0 /\ IsSpace(CharAt(s, 1)) THEN LStrip(Tail(s)) ELSE s

RECURSIVE RStrip(_)
RStrip(s) ==
    IF Len(s) > 0 /\ IsSpace(CharAt(s, Len(s)))
    THEN RStrip(SubSeq(s, 1, Len(s) - 1)) ELSE s

\* str.strip()
StrStrip(s) == RStrip(LStrip(s))

\* str.isdigit(): non-empty and all digits
IsDigits(s) == Len(s) > 0 /\ \A i \in 1..Len(s) : IsDigit(CharAt(s, i))

\* the position of the first occurrence of the character c, or 0
FirstPos(s, c) ==
    IF \E i \in 1..Len(s) : CharAt(s, i) = c
    THEN CHOOSE i \in 1..Len(s) :
            CharAt(s, i) = c /\ \A j \in 1..(i - 1) : CharAt(s, j) # c
    ELSE 0

RECURSIVE Split(_, _)
\* str.split(c) for a one-character separator: the list of pieces
Split(s, c) ==
    LET i == FirstPos(s, c)
    IN  IF i = 0 THEN <<s>>
        ELSE <<SubSeq(s, 1, i - 1)>> \o Split(DropFirst(s, i), c)

\* str.split(c, 1)
Split1(s, c) ==
    LET i == FirstPos(s, c)
    IN  IF i = 0 THEN <<s>> ELSE <<SubSeq(s, 1, i - 1), DropFirst(s, i)>>

RECURSIVE Join(_, _)
\* c.join(parts)
Join(c, parts) ==
    IF Len(parts) = 0 THEN ""
    ELSE IF Len(parts) = 1 THEN parts[1]
    ELSE parts[1] \o c \o Join(c, Tail(parts))

\* lst[-1]
Last(l) == l[Len(l)]

\* lst[:-1]
ButLast(l) == SubSeq(l, 1, Len(l) - 1)

(***************************************************************************)
(* norm_arxiv and norm_doi, stage_1_enrich_identifiers.py                  *)
(***************************************************************************)
norm_arxiv(a) ==
    IF ~Truthy(a) THEN ""
    ELSE LET a1 == StrStrip(a)
             a2 == IF StartsWith(Lower(a1), "arxiv:")
                   THEN Split1(a1, ":")[2] ELSE a1
             parts == Split(a2, "v")
         IN  IF Len(parts) > 1 /\ IsDigits(Last(parts))
             THEN Join("v", ButLast(parts)) ELSE a2

norm_doi(d) ==
    IF ~Truthy(d) THEN ""
    ELSE LET d1 == StrStrip(d)
             low == Lower(d1)
             d2 == IF StartsWith(low, "doi:")
                   THEN StrStrip(Split1(d1, ":")[2]) ELSE d1
             d3 == IF StartsWith(low, "http://doi.org/")
                   THEN DropFirst(d2, Len("http://doi.org/"))
                   ELSE IF StartsWith(low, "https://doi.org/")
                   THEN DropFirst(d2, Len("https://doi.org/"))
                   ELSE d2
         IN  IF StartsWith(d3, "10.") THEN d3 ELSE ""

(***************************************************************************)
(* update_row, stage_2_fetch_abstracts_from_s2.py                          *)
(***************************************************************************)
Stage2Accepts(meta) == Strip(Or(Get(meta, "abstract", NULL), "")) # ""

Stage2UpdateRow(r, meta) ==
    LET abstract == Strip(Or(Get(meta, "abstract", NULL), ""))
    IN  IF abstract = "" THEN r
        ELSE SqlUpdate(r, Dict({
            <<"title", Coalesce(Get(meta, "title", NULL), r.title)>>,
            <<"abstract", abstract>>,
            <<"cited_by_count",
              Coalesce(Get(meta, "citationCount", NULL), r.cited_by_count)>>,
            <<"year", Coalesce(Get(meta, "year", NULL), r.year)>>,
            <<"publicationDate",
              Coalesce(Get(meta, "publicationDate", NULL), r.publicationDate)>>}))

(***************************************************************************)
(* update_row, fetch_abstracts_s2_arxiv.py                                 *)
(***************************************************************************)
FetchUpdates(s2, arxiv_abs) ==
    LET ext == Get(s2, "externalIds", NoDict)
        arx == Get(ext, "ArXiv", NULL)
        fromS2 ==
            IF ~TruthyDict(s2) THEN {}
            ELSE (IF Truthy(Get(s2, "title", NULL))
                    THEN {<<"title", s2.title>>} ELSE {})
            \cup (IF Truthy(Get(s2, "abstract", NULL))
                    THEN {<<"abstract", s2.abstract>>} ELSE {})
            \cup (IF Get(s2, "year", NULL) # NULL
                    THEN {<<"year", s2.year>>} ELSE {})
            \cup (IF Truthy(Get(s2, "publicationDate", NULL))
                    THEN {<<"publicationDate", s2.publicationDate>>} ELSE {})
            \cup (IF Get(s2, "citationCount", NULL) # NULL
                    THEN {<<"cited_by_count", s2.citationCount>>} ELSE {})
            \cup (IF Truthy(arx) THEN {<<"arxivId", arx>>} ELSE {})
        hasAbs == \E p \in fromS2 : p[1] = "abstract"
    IN  Dict(fromS2 \cup (IF ~hasAbs /\ Truthy(arxiv_abs)
                            THEN {<<"abstract", arxiv_abs>>} ELSE {}))

FetchUpdateRow(r, s2, arxiv_abs) == SqlUpdate(r, FetchUpdates(s2, arxiv_abs))

(***************************************************************************)
(* update_row, extract_semantic_scholar.py                                 *)
(***************************************************************************)
\* update_row with the COALESCE arguments the other way round
ExtractUpdateRowNewFirst(r, meta, refs, cits) ==
    SqlUpdate(r, Dict({
        <<"abstract", IF TruthyDict(meta) THEN Get(meta, "abstract", "") ELSE "">>,
        <<"references", JsonDumps(refs)>>,
        <<"citedBy", JsonDumps(cits)>>,
        <<"authors", Coalesce(JsonDumps(Get(meta, "authors", <<>>)), r.authors)>>,
        <<"fieldsOfStudy",
          Coalesce(JsonDumps(Get(meta, "fieldsOfStudy", <<>>)), r.fieldsOfStudy)>>,
        <<"citationCount",
          Coalesce(Get(meta, "citationCount", NULL), r.citationCount)>>,
        <<"year", Coalesce(Get(meta, "year", NULL), r.year)>>,
        <<"publicationDate",
          Coalesce(Get(meta, "publicationDate", NULL), r.publicationDate)>>}))

ExtractUpdateRow(r, meta, refs, cits) ==
    SqlUpdate(r, Dict({
        <<"abstract", IF TruthyDict(meta) THEN Get(meta, "abstract", "") ELSE "">>,
        <<"references", JsonDumps(refs)>>,
        <<"citedBy", JsonDumps(cits)>>,
        <<"authors",
          Coalesce(NullIf(r.authors, ""),
                   IF TruthyDict(meta) THEN JsonDumps(Get(meta, "authors", <<>>))
                   ELSE JsonDumps(<<>>))>>,
        <<"fieldsOfStudy",
          Coalesce(NullIf(r.fieldsOfStudy, ""),
                   IF TruthyDict(meta)
                   THEN JsonDumps(Get(meta, "fieldsOfStudy", <<>>))
                   ELSE JsonDumps(<<>>))>>,
        <<"citationCount",
          Coalesce(r.citationCount,
                   IF TruthyDict(meta) THEN Get(meta, "citationCount", NULL)
                   ELSE NULL)>>,
        <<"year",
          Coalesce(r.year,
                   IF TruthyDict(meta) THEN Get(meta, "year", NULL) ELSE NULL)>>,
        <<"publicationDate",
          Coalesce(r.publicationDate,
                   IF TruthyDict(meta) THEN Get(meta, "publicationDate", NULL)
                   ELSE NULL)>>}))

\* The print that ends update_row slices the title: meta.get("title") is
\* None for a non-empty meta without a title, and None[:80] raises TypeError
\* after the commit.
ExtractUpdateRaises(meta) ==
    TruthyDict(meta) /\ Get(meta, "title", NULL) = NULL

(***************************************************************************)
(* update_row, OLD/enrich_abstracts_batch.py                               *)
(***************************************************************************)
OldUpdateRow(r, meta, refs, cits) ==
    SqlUpdate(r, Dict({
        <<"abstract", Or(Get(meta, "abstract", ""), "")>>,
        <<"references", JsonDumps(refs)>>,
        <<"citedBy", JsonDumps(cits)>>,
        <<"authors",
          Coalesce(NullIf(r.authors, ""), JsonDumps(Get(meta, "authors", <<>>)))>>,
        <<"fieldsOfStudy",
          Coalesce(NullIf(r.fieldsOfStudy, ""),
                   JsonDumps(Get(meta, "fieldsOfStudy", <<>>)))>>,
        <<"citationCount",
          Coalesce(r.citationCount, Get(meta, "citationCount", NULL))>>,
        <<"year", Coalesce(r.year, Get(meta, "year", NULL))>>,
        <<"publicationDate",
          Coalesce(r.publicationDate, Get(meta, "publicationDate", NULL))>>}))

(***************************************************************************)
(* The row store under update_row: one row, and any sequence of calls of   *)
(* the update_row of one script, with the metadata a source may return.    *)
(***************************************************************************)
Scripts == {"stage2", "fetch", "extract", "old"}

\* papers rows as stage 2 and fetch_abstracts_s2_arxiv see them
RowsA ==
    [title : {NULL, "T0"}, abstract : {NULL, "", "A0"}, year : {NULL, "2019"},
     publicationDate : {NULL, "2019-03-01"}, cited_by_count : {NULL, "7"},
     arxivId : {NULL}]

\* papers rows as extract_semantic_scholar and enrich_abstracts_batch see them
RowsB ==
    [abstract : {NULL, "A0"}, references : {NULL}, citedBy : {NULL},
     authors : {NULL, "", "[\"x\"]"}, fieldsOfStudy : {NULL, "[\"phys\"]"},
     citationCount : {NULL, "7"}, year : {NULL, "2019"},
     publicationDate : {NULL, "2019-03-01"}]

\* a Semantic Scholar item as stage 2 requests it (S2_FIELDS), or the
\* {"abstract": ...} dict of the OpenAlex and arXiv passes
Stage2Metas ==
    [title : {NULL, "T1"}, abstract : {NULL, " ", "A1"}, year : {NULL, "2020"},
     publicationDate : {NULL, "2020-06-01"}, citationCount : {NULL, "9"}]
    \cup [abstract : {"A2"}]

\* what fetch_s2_by_doi returns: None or the paper's JSON object
FetchS2Data ==
    {NoDict} \cup
    [title : {NULL, "T1"}, abstract : {NULL, "A1"}, year : {NULL, "2020"},
     publicationDate : {NULL, "2020-06-01"}, citationCount : {NULL, "9"},
     externalIds : {NoDict, [ArXiv |-> "2401.00001"]}]

\* the meta dict built in s2_get_by_paperid / s2_get_by_key / main, and the
\* {"abstract": ""} dict of a row nothing was found for
FullMetas ==
    [title : {"T1"}, abstract : {"", "A1"}, citationCount : {NULL, "9"},
     authors : {<<>>, <<"y">>}, fieldsOfStudy : {<<>>, <<"cs">>},
     year : {NULL, "2020"}, publicationDate : {NULL, "2020-06-01"}]

ExtractMetas == FullMetas \cup {[abstract |-> ""]}

IdLists == {<<>>, <<"r1">>}

\* the (refs, cits) pairs a source answers with
RefsCits == {<<<<>>, <<>>>>, <<<<"r1">>, <<"c1">>>>}

CallOf(fn, year, abstract, authors) ==
    [fn |-> fn, year |-> year, abstract |-> abstract, authors |-> authors]

RowPark ==
    /\ script = "none"
    /\ row = [abstract |-> NULL]
    /\ call = CallOf("none", NULL, "", <<>>)

FetchPark ==
    /\ global_delay = 40
    /\ consecutive_429 = 0
    /\ fpc = "idle"
    /\ attempt = 0
    /\ doi = NULL
    /\ slept = 0
    /\ fresult = "none"
    /\ resp = "none"
    /\ since = NULL

S1Park ==
    /\ s1db = <<>>
    /\ s1rows = <<>>
    /\ s1pc = "off"
    /\ s1i = 0
    /\ s1work = <<>>

ExPark ==
    /\ exdb = <<>>
    /\ exans = <<>>
    /\ exrun = 0
    /\ expos = 0
    /\ expc = "off"
    /\ exn = 0
    /\ exupd = 0
    /\ exdb1 = <<>>
    /\ exlog = <<>>

OldPark ==
    /\ odb = <<>>
    /\ opc = "off"
    /\ omissing = <<>>
    /\ opart = <<>>
    /\ oquery = <<>>
    /\ okey = "none"
    /\ ogrp = 0
    /\ oattempt = 0
    /\ oout = <<>>
    /\ ofallback = <<>>
    /\ ooa = <<>>
    /\ oupdated = 0

RbPark ==
    /\ rcit = <<>>
    /\ rtxn = <<>>
    /\ rpc = "off"
    /\ rrun = 0
    /\ rlast = "none"
    /\ done_sources = {}
    /\ roffset = 0
    /\ remaining_ids = <<>>
    /\ rbatch = 0
    /\ rsingle = 0
    /\ rresults = <<>>
    /\ rreq = {}

HttpPark ==
    /\ hfn = "none"
    /\ hpc = "off"
    /\ hattempt = 0
    /\ hsent = 0
    /\ hsleeps = 0
    /\ hwait = 0
    /\ hresp = [status |-> 0, ra |-> NULL]
    /\ hresult = "none"

PurePark ==
    /\ pfn = "none"
    /\ ppc = "off"
    /\ pin = NULL
    /\ pmid = NULL
    /\ pout = NULL

AiPark ==
    /\ arow = <<>>
    /\ apc = "off"
    /\ aflags = <<>>
    /\ asel = FALSE
    /\ arun = 0
    /\ alog = <<>>
    /\ aneed = "unknown"

EgPark ==
    /\ egscript = "none"
    /\ egdb = [papers |-> <<>>, citations |-> {}, colpair |-> FALSE]
    /\ egopts = [min_citations |-> 0, top_n |-> 0, use_landmarks |-> FALSE, landmark_count |-> 1]
    /\ egpc = "parked"
    /\ egnodes = {}
    /\ egedges = {}
    /\ egout = [written |-> FALSE, nodes |-> {}, edges |-> {}]

StPark ==
    /\ stdb = <<>>
    /\ stwork = <<>>
    /\ stpc = "parked"
    /\ sti = 0
    /\ stneed = {}
    /\ stdb0 = <<>>
    /\ stlog = [pass |-> "none", db_id |-> "none"]

RowInit ==
    /\ script \in Scripts
    /\ row \in (IF script \in {"stage2", "fetch"} THEN RowsA ELSE RowsB)
    /\ call = CallOf("none", NULL, "", <<>>)
    /\ FetchPark
    /\ S1Park
    /\ ExPark
    /\ OldPark
    /\ RbPark
    /\ HttpPark
    /\ PurePark
    /\ AiPark
    /\ EgPark
    /\ StPark

Stage2Call ==
    /\ script = "stage2"
    /\ \E meta \in Stage2Metas :
        /\ row' = Stage2UpdateRow(row, meta)
        /\ call' = CallOf("stage2", Get(meta, "year", NULL),
                          Strip(Or(Get(meta, "abstract", NULL), "")), <<>>)
    /\ UNCHANGED <<script, notRowVars>>

FetchCall ==
    /\ script = "fetch"
    /\ \E s2 \in FetchS2Data, arxiv_abs \in {NULL, "A2"} :
        /\ row' = FetchUpdateRow(row, s2, arxiv_abs)
        /\ call' = CallOf("fetch", Get(s2, "year", NULL),
                          Get(FetchUpdates(s2, arxiv_abs), "abstract", ""), <<>>)
    /\ UNCHANGED <<script, notRowVars>>

ExtractCall ==
    /\ script = "extract"
    /\ \E meta \in ExtractMetas, rc \in RefsCits :
        /\ row' = ExtractUpdateRow(row, meta, rc[1], rc[2])
        /\ call' = CallOf("extract", Get(meta, "year", NULL),
                          Get(meta, "abstract", ""), Get(meta, "authors", <<>>))
    /\ UNCHANGED <<script, notRowVars>>

OldCall ==
    /\ script = "old"
    /\ \E meta \in FullMetas, refs \in IdLists :
        /\ row' = OldUpdateRow(row, meta, refs, <<>>)
        /\ call' = CallOf("old", Get(meta, "year", NULL),
                          Get(meta, "abstract", ""), Get(meta, "authors", <<>>))
    /\ UNCHANGED <<script, notRowVars>>

RowNext == Stage2Call \/ FetchCall \/ ExtractCall \/ OldCall

RowSpec == RowInit /\ [][RowNext]_vars

(***************************************************************************)
(* fetch_s2_by_doi, fetch_abstracts_s2_arxiv.py.  Times are centiseconds;  *)
(* a product with 0.95, 1.5 or 2.5 is rounded down to the centisecond.     *)
(* One step sleeps global_delay and sends the request, one step handles    *)
(* the answer up to the next loop test.                                    *)
(***************************************************************************)
max_local_retries == 2
CooldownAfter == 5
CooldownSleep == 18000
CooldownDelay == 600
InitialDelay == 40
MinDelay == 20
MaxDelay == 1200
MaxDelayNetwork == 1000

Dois == {"10.1/a", "10.1/b"}

Min(a, b) == IF a <= b THEN a ELSE b
Max(a, b) == IF a >= b THEN a ELSE b

\* the loop test `while attempt <= max_local_retries`, else `return None`
FetchLoopOrReturn(a) == IF a <= max_local_retries THEN "loop" ELSE "idle"

FetchInit ==
    /\ global_delay = InitialDelay
    /\ consecutive_429 = 0
    /\ fpc = "idle"
    /\ attempt = 0
    /\ doi = NULL
    /\ slept = 0
    /\ fresult = "none"
    /\ resp = "none"
    /\ since = NULL
    /\ RowPark
    /\ S1Park
    /\ ExPark
    /\ OldPark
    /\ RbPark
    /\ HttpPark
    /\ PurePark
    /\ AiPark
    /\ EgPark
    /\ StPark

\* main calls fetch_s2_by_doi for the next row's DOI
FetchStart ==
    /\ fpc = "idle"
    /\ \E d \in Dois : doi' = d
    /\ attempt' = 0
    /\ fpc' = FetchLoopOrReturn(0)
    /\ slept' = 0
    /\ fresult' = "running"
    /\ UNCHANGED <<global_delay, consecutive_429, resp, since, notFetchVars>>

\* time.sleep(global_delay); requests.get(...)
FetchRequest ==
    /\ fpc = "loop"
    /\ slept' = global_delay
    /\ fpc' = "await"
    /\ UNCHANGED <<global_delay, consecutive_429, attempt, doi, fresult, resp,
                   since, notFetchVars>>

\* requests.get raised (timeout, connection error)
FetchNetworkError ==
    /\ fpc = "await"
    /\ resp' = "neterr"
    /\ global_delay' = Min(MaxDelayNetwork, (global_delay * 3) \div 2)
    /\ attempt' = attempt + 1
    /\ fpc' = FetchLoopOrReturn(attempt + 1)
    /\ fresult' = IF attempt + 1 <= max_local_retries THEN fresult ELSE "None"
    /\ slept' = 0
    /\ UNCHANGED <<consecutive_429, doi, since, notFetchVars>>

\* the speed-up without its floor of 0.2 s
SpeedUpUnclamped(d) == (d * 95) \div 100

\* global_delay = max(0.2, global_delay * 0.95)
SpeedUp(d) == Max(MinDelay, (d * 95) \div 100)

\* 200 OK; the body parses as JSON or not
FetchResp200 ==
    /\ fpc = "await"
    /\ resp' = "200"
    /\ consecutive_429' = 0
    /\ since' = NULL
    /\ \E jsonOk \in BOOLEAN :
        /\ global_delay' =
              IF jsonOk THEN SpeedUp(global_delay) ELSE global_delay
        /\ fresult' = IF jsonOk THEN "data" ELSE "None"
    /\ fpc' = "idle"
    /\ slept' = 0
    /\ UNCHANGED <<attempt, doi, notFetchVars>>

FetchResp404 ==
    /\ fpc = "await"
    /\ resp' = "404"
    /\ consecutive_429' = 0
    /\ since' = NULL
    /\ fresult' = "None"
    /\ fpc' = "idle"
    /\ slept' = 0
    /\ UNCHANGED <<global_delay, attempt, doi, notFetchVars>>

\* `if consecutive_429 >= 5` with > for >=
Cooldown429Strict(n) == n > CooldownAfter

\* `if consecutive_429 >= 5`
Cooldown429(n) == n >= CooldownAfter

\* 429: the counter and the delay grow; at the fifth the long cooldown
FetchResp429 ==
    /\ fpc = "await"
    /\ resp' = "429"
    /\ LET n == consecutive_429 + 1
           cool == Cooldown429(n)
       IN  /\ consecutive_429' = IF cool THEN 0 ELSE n
           /\ global_delay' =
                 IF cool THEN CooldownDelay
                 ELSE Min(MaxDelay, (global_delay * 5) \div 2)
           /\ slept' = IF cool THEN CooldownSleep ELSE 0
    /\ since' = IF consecutive_429 = 0 THEN doi ELSE since
    /\ fpc' = FetchLoopOrReturn(attempt)
    /\ UNCHANGED <<attempt, doi, fresult, notFetchVars>>

FetchResp5xx ==
    /\ fpc = "await"
    /\ resp' = "5xx"
    /\ global_delay' = Min(MaxDelay, (global_delay * 3) \div 2)
    /\ attempt' = attempt + 1
    /\ fpc' = FetchLoopOrReturn(attempt + 1)
    /\ fresult' = IF attempt + 1 <= max_local_retries THEN fresult ELSE "None"
    /\ slept' = 0
    /\ UNCHANGED <<consecutive_429, doi, since, notFetchVars>>

\* any other status (400, 403, ...)
FetchRespOther ==
    /\ fpc = "await"
    /\ resp' = "other"
    /\ fresult' = "None"
    /\ fpc' = "idle"
    /\ slept' = 0
    /\ UNCHANGED <<global_delay, consecutive_429, attempt, doi, since,
                   notFetchVars>>

FetchNext ==
    \/ FetchStart
    \/ FetchRequest
    \/ FetchNetworkError
    \/ FetchResp200
    \/ FetchResp404
    \/ FetchResp429
    \/ FetchResp5xx
    \/ FetchRespOther

FetchSpec == FetchInit /\ [][FetchNext]_vars

\* The script is sequential and every request is answered or times out
\* (timeout=15): some step is always taken.
FetchFairSpec == FetchSpec /\ WF_vars(FetchNext)

(***************************************************************************)
(* stage_1_enrich_identifiers.py: main over the stage 0 records.  Pass 1   *)
(* asks OpenAlex for the DOI and arXiv id a record lacks, pass 2 resolves  *)
(* the records in batches at Semantic Scholar and writes the identifiers.  *)
(***************************************************************************)
S1NumRows == 2
S1BatchSize == 2

S1Cols == {"doi", "arxivId", "s2_id", "corpusId"}

\* the identifier columns of a papers row before stage 1
S1DbRows ==
    [doi : {NULL, "", "10.1/a", "https://doi.org/10.1/a"},
     arxivId : {NULL, "2401.00001v2"}, s2_id : {NULL}, corpusId : {NULL}]

\* stage 0, discover: the record written for a row (`or None`)
Stage0Record(r) ==
    [doi |-> Or(r.doi, NULL), arxiv |-> Or(r.arxivId, NULL),
     s2_id |-> NULL, corpusId |-> NULL]

\* db_update_identifiers: the columns whose field is not None are written
db_update_identifiers(r, fields) ==
    [c \in DOMAIN r |->
        IF c \in S1Cols /\ Get(fields, c, NULL) # NULL THEN fields[c] ELSE r[c]]

\* what OpenAlex answers to select=doi,ids: the doi and the ids.arxiv URL
OaBackfillData ==
    [doi : {NULL, "https://doi.org/10.1/b"},
     arxiv : {"", "https://arxiv.org/abs/2401.00002"}]

\* oa_backfill: the dict it returns for an answer
oa_backfill(data) ==
    [doi |-> Or(data.doi, NULL),
     arxiv |-> IF Truthy(data.arxiv) THEN Last(Split(data.arxiv, "/")) ELSE NULL]

\* one element of the Semantic Scholar batch answer: null or a paper
S1Items ==
    {NoDict} \cup
    [paperId : {"s2a"},
     externalIds : {NoDict, [DOI |-> "10.1/a"],
                    [DOI |-> "10.9/z", ArXiv |-> "2401.00009"],
                    [ArXiv |-> "2401.00001", CorpusId |-> "77"]}]

\* the answers of length at most n
S1Answers(n) == UNION {[1..k -> S1Items] : k \in 0..n}

S1Init ==
    /\ s1db \in [1..S1NumRows -> S1DbRows]
    /\ s1rows = [i \in 1..S1NumRows |-> Stage0Record(s1db[i])]
    /\ s1pc = "pass1"
    /\ s1i = 0
    /\ s1work = <<>>
    /\ RowPark
    /\ FetchPark
    /\ ExPark
    /\ OldPark
    /\ RbPark
    /\ HttpPark
    /\ PurePark
    /\ AiPark
    /\ EgPark
    /\ StPark

\* Pass 1, one record: skipped when it has both ids; the OpenAlex call may
\* raise (logged), else the missing ids are taken and written
S1Backfill ==
    /\ s1pc = "pass1"
    /\ s1i < S1NumRows
    /\ s1i' = s1i + 1
    /\ LET i == s1i + 1
           r == s1rows[i]
       IN  IF Truthy(r.doi) /\ Truthy(r.arxiv)
           THEN UNCHANGED <<s1db, s1rows>>
           ELSE \/ UNCHANGED <<s1db, s1rows>>
                \/ \E data \in OaBackfillData :
                    LET bf == oa_backfill(data)
                        r1 == IF ~Truthy(r.doi) /\ Truthy(bf.doi)
                              THEN [r EXCEPT !.doi = bf.doi] ELSE r
                        r2 == IF ~Truthy(r.arxiv) /\ Truthy(bf.arxiv)
                              THEN [r1 EXCEPT !.arxiv = bf.arxiv] ELSE r1
                    IN  /\ s1rows' = [s1rows EXCEPT ![i] = r2]
                        /\ s1db' =
                             IF r2 # r
                             THEN [s1db EXCEPT ![i] = db_update_identifiers(@,
                                     [doi |-> r2.doi, arxivId |-> r2.arxiv])]
                             ELSE s1db
    /\ UNCHANGED <<s1pc, s1work, notS1Vars>>

RECURSIVE S1Worklist(_, _)
\* `work` and `idx`: the records with a usable DOI or arXiv id
S1Worklist(rows, i) ==
    IF i > Len(rows) THEN <<>>
    ELSE LET d == norm_doi(rows[i].doi)
             a == norm_arxiv(rows[i].arxiv)
             use_id == IF d # "" THEN "DOI:" \o d
                       ELSE IF a # "" THEN "ArXiv:" \o a ELSE NULL
         IN  (IF use_id # NULL THEN <<<<use_id, i>>>> ELSE <<>>)
             \o S1Worklist(rows, i + 1)

S1BuildWorklist ==
    /\ s1pc = "pass1"
    /\ s1i = S1NumRows
    /\ s1work' = S1Worklist(s1rows, 1)
    /\ s1pc' = "pass2"
    /\ s1i' = 0
    /\ UNCHANGED <<s1db, s1rows, notS1Vars>>

\* the `updates` dict built for a record and its batch item
S1Updates(rec, item) ==
    LET ext == Get(item, "externalIds", NoDict)
    IN  [s2_id |-> Get(item, "paperId", NULL),
         corpusId |-> Get(ext, "CorpusId", NULL),
         doi |-> Or(Get(ext, "DOI", NULL), rec.doi),
         arxivId |-> Or(Get(ext, "ArXiv", NULL), rec.arxiv)]

\* `for k, v in updates.items(): if v is not None: rec[k] = v`
S1RecUpdate(rec, u) ==
    [s2_id |-> Coalesce(u.s2_id, rec.s2_id),
     corpusId |-> Coalesce(u.corpusId, rec.corpusId),
     doi |-> Coalesce(u.doi, rec.doi),
     arxiv |-> rec.arxiv]

RECURSIVE S1ApplyDb(_, _, _, _, _)
\* `for rec, item in zip(chunk, data)`: the table after the k-th pair on
S1ApplyDb(db, rows, chunk, data, k) ==
    IF k > Len(chunk) \/ k > Len(data) THEN db
    ELSE LET i == chunk[k][2]
             item == data[k]
         IN  S1ApplyDb(
                IF TruthyDict(item)
                THEN [db EXCEPT ![i] =
                        db_update_identifiers(@, S1Updates(rows[i], item))]
                ELSE db,
                rows, chunk, data, k + 1)

RECURSIVE S1ApplyRows(_, _, _, _)
S1ApplyRows(rows, chunk, data, k) ==
    IF k > Len(chunk) \/ k > Len(data) THEN rows
    ELSE LET i == chunk[k][2]
             item == data[k]
         IN  S1ApplyRows(
                IF TruthyDict(item)
                THEN [rows EXCEPT ![i] = S1RecUpdate(@, S1Updates(@, item))]
                ELSE rows,
                chunk, data, k + 1)

\* Pass 2, one batch: the request may fail (logged, batch skipped)
S1ResolveBatch ==
    /\ s1pc = "pass2"
    /\ s1i < Len(s1work)
    /\ s1i' = s1i + S1BatchSize
    /\ LET chunk == SubSeq(s1work, s1i + 1, Min(Len(s1work), s1i + S1BatchSize))
       IN  \/ UNCHANGED <<s1db, s1rows>>
           \/ \E data \in S1Answers(Len(chunk)) :
                /\ s1db' = S1ApplyDb(s1db, s1rows, chunk, data, 1)
                /\ s1rows' = S1ApplyRows(s1rows, chunk, data, 1)
    /\ UNCHANGED <<s1pc, s1work, notS1Vars>>

\* the join table and the report are written
S1Finish ==
    /\ s1pc = "pass2"
    /\ s1i >= Len(s1work)
    /\ s1pc' = "done"
    /\ UNCHANGED <<s1db, s1rows, s1i, s1work, notS1Vars>>

S1Next == S1Backfill \/ S1BuildWorklist \/ S1ResolveBatch \/ S1Finish

S1Spec == S1Init /\ [][S1Next]_vars

(***************************************************************************)
(* Identifier shapes: OPENALEX_ID_RE / RE_OA and S2_HEX_RE / RE_S2HEX,     *)
(* matched with re.match and re.I.                                         *)
(***************************************************************************)
IsHexDigit(c) == IsDigit(c) \/ LowerChar(c) \in {"a", "b", "c", "d", "e", "f"}

\* `$` matches at the end and before a newline that ends the string
BeforeDollar(s) ==
    {s} \cup (IF Len(s) > 0 /\ CharAt(s, Len(s)) = "\n"
              THEN {SubSeq(s, 1, Len(s) - 1)} ELSE {})

\* ^https?://(www\.)?openalex\.org/W\d+$
MatchesOpenAlexUrl(pid) ==
    \E t \in BeforeDollar(pid) :
        LET low == Lower(t)
            r1 == IF StartsWith(low, "https://") THEN DropFirst(low, 8)
                  ELSE IF StartsWith(low, "http://") THEN DropFirst(low, 7)
                  ELSE NULL
            tails == IF r1 = NULL THEN {}
                     ELSE {r1} \cup (IF StartsWith(r1, "www.")
                                     THEN {DropFirst(r1, 4)} ELSE {})
        IN  \E r2 \in tails :
                /\ StartsWith(r2, "openalex.org/w")
                /\ IsDigits(DropFirst(r2, Len("openalex.org/w")))

\* ^[0-9a-f]{40}$
MatchesS2Hex(pid) ==
    \E t \in BeforeDollar(pid) :
        Len(t) = 40 /\ \A i \in 1..40 : IsHexDigit(CharAt(t, i))

\* id_kind, extract_semantic_scholar.py
id_kind(pid) ==
    IF ~Truthy(pid) THEN "unknown"
    ELSE IF MatchesOpenAlexUrl(pid) THEN "openalex"
    ELSE IF MatchesS2Hex(pid) THEN "s2_paper"
    ELSE "unknown"

(***************************************************************************)
(* extract_semantic_scholar.py: enrich_one and main.  A source answers a   *)
(* request the same way every time it is asked (exans).                    *)
(***************************************************************************)
ExRuns == 2

\* the paperId of the rows, in rowid order
ExIds ==
    <<"abababababababababababababababababababab",
      "https://openalex.org/W1",
      "W7">>

ExRowIds == 1..Len(ExIds)

\* the DOI and the arXiv id OpenAlex may reveal for the OpenAlex row
ExDoi == "https://doi.org/10.1/a"
ExArxiv == "https://arxiv.org/abs/2401.00001"

\* a papers row before the first run
ExRows ==
    [abstract : {NULL, "", "A0"}, references : {"[\"r0\"]"},
     citedBy : {"[\"c0\"]"}, authors : {NULL}, fieldsOfStudy : {NULL},
     citationCount : {NULL}, year : {"2019"}, publicationDate : {NULL}]

\* the meta dict of s2_get_by_paperid / s2_get_by_key for a paper
S2Meta(title, abstract) ==
    [title |-> title, abstract |-> abstract, citationCount |-> "9",
     authors |-> <<"y">>, fieldsOfStudy |-> <<"cs">>, year |-> "2020",
     publicationDate |-> "2020-06-01"]

Answer(status, meta, refs, cits, ids) ==
    [status |-> status, meta |-> meta, refs |-> refs, cits |-> cits, ids |-> ids]

NoIds == [doi |-> NULL, arxiv |-> NULL, abstract |-> NULL]

Unasked == Answer("unasked", NoDict, <<>>, <<>>, NoIds)

\* s2_get_by_paperid / s2_get_by_key: an exception (HTTP error, timeout),
\* (None, [], []) on 404, or (meta, refs, cits)
S2Answers ==
    {Answer("raise", NoDict, <<>>, <<>>, NoIds),
     Answer("404", NoDict, <<>>, <<>>, NoIds),
     Answer("data", S2Meta("T1", ""), <<>>, <<>>, NoIds),
     Answer("data", S2Meta("T1", ""), <<"r1">>, <<"c1">>, NoIds),
     Answer("data", S2Meta("T1", "A1"), <<"r1">>, <<"c1">>, NoIds),
     Answer("data", S2Meta(NULL, "A1"), <<"r1">>, <<>>, NoIds)}

\* openalex_get_ids_and_abstract: an exception or {doi, arxiv, abstract}
OaAnswers ==
    {Answer("raise", NoDict, <<>>, <<>>, NoIds)} \cup
    {Answer("data", NoDict, <<>>, <<>>, ids) :
        ids \in [doi : {NULL, ExDoi}, arxiv : {NULL, ExArxiv},
                 abstract : {NULL}]
                \cup {[doi |-> NULL, arxiv |-> NULL, abstract |-> "OA1"]}}

\* the requests of the model
ExKeyOa(pid) == "oa/" \o pid
ExKeyId(pid) == "s2/" \o pid
ExKeyTag(tag, val) == "s2/" \o tag \o ":" \o val

ExKeys ==
    {ExKeyOa(ExIds[i]) : i \in ExRowIds} \cup {ExKeyId(ExIds[i]) : i \in ExRowIds}
    \cup {ExKeyTag("DOI", ExDoi), ExKeyTag("arXiv", ExArxiv)}

\* yield_missing_papers: the need predicate
ExMissing(r) == r.abstract = NULL \/ r.abstract = ""

\* the meta of a row nothing was found for
NoneMeta == [abstract |-> ""]

\* the meta built from an OpenAlex abstract
OaMeta(abstract) ==
    [title |-> "", abstract |-> abstract, citationCount |-> NULL,
     authors |-> <<>>, fieldsOfStudy |-> <<>>, year |-> NULL,
     publicationDate |-> NULL]

Outcome(r, asked, writes, crashed) ==
    [row |-> r, asked |-> asked, writes |-> writes, crashed |-> crashed]

\* enrich_one for a 40-hex id or an id of unknown shape: every exception,
\* the one update_row raises after its commit too, is caught and logged
EnrichById(r, pid, a) ==
    IF a.status = "raise" THEN Outcome(r, <<ExKeyId(pid)>>, <<>>, FALSE)
    ELSE IF a.status = "data"
            /\ (Truthy(a.meta.abstract) \/ a.refs # <<>> \/ a.cits # <<>>)
    THEN Outcome(ExtractUpdateRow(r, a.meta, a.refs, a.cits),
                 <<ExKeyId(pid)>>, <<"s2id">>, FALSE)
    ELSE Outcome(ExtractUpdateRow(r, NoneMeta, <<>>, <<>>),
                 <<ExKeyId(pid)>>, <<"(none)">>, FALSE)

\* one turn of `for tag in [("DOI", ...), ("arXiv", ...)]`; o.crashed says
\* here that the loop has returned
EnrichTryKey(o, tag, val, a) ==
    IF o.crashed \/ ~Truthy(val) THEN o
    ELSE IF a.status = "data" /\ Truthy(a.meta.abstract)
    THEN Outcome(ExtractUpdateRow(o.row, a.meta, a.refs, a.cits),
                 Append(o.asked, ExKeyTag(tag, val)), Append(o.writes, tag),
                 ~ExtractUpdateRaises(a.meta))
    ELSE Outcome(o.row, Append(o.asked, ExKeyTag(tag, val)), o.writes, FALSE)

\* enrich_one for an OpenAlex id; the update_row of "nothing found" is
\* outside every try, its exception ends the run
EnrichOpenAlex(r, pid, aOa, aDoi, aArx) ==
    IF aOa.status = "raise" THEN Outcome(r, <<ExKeyOa(pid)>>, <<>>, FALSE)
    ELSE IF Truthy(aOa.ids.abstract)
    THEN Outcome(ExtractUpdateRow(r, OaMeta(aOa.ids.abstract), <<>>, <<>>),
                 <<ExKeyOa(pid)>>, <<"oa">>, FALSE)
    ELSE LET o0 == Outcome(r, <<ExKeyOa(pid)>>, <<>>, FALSE)
             o1 == EnrichTryKey(o0, "DOI", aOa.ids.doi, aDoi)
             o2 == EnrichTryKey(o1, "arXiv", aOa.ids.arxiv, aArx)
         IN  IF o2.crashed THEN [o2 EXCEPT !.crashed = FALSE]
             ELSE Outcome(ExtractUpdateRow(o2.row, NoneMeta, <<>>, <<>>),
                          o2.asked, Append(o2.writes, "(none)"),
                          ExtractUpdateRaises(NoneMeta))

\* id_kind of every row's paperId
ExKind == [i \in ExRowIds |-> id_kind(ExIds[i])]

enrich_one(r, i, aOa, aId, aDoi, aArx) ==
    IF ExKind[i] = "openalex" THEN EnrichOpenAlex(r, ExIds[i], aOa, aDoi, aArx)
    ELSE EnrichById(r, ExIds[i], aId)

\* the rowids the cursor has still to yield: rows after expos that miss
\* their abstract
ExToYield == {i \in ExRowIds : i > expos /\ ExMissing(exdb[i])}

ExNextRow == CHOOSE i \in ExToYield : \A j \in ExToYield : i <= j

\* the answers a source may give to request k now; Unasked stands for a
\* request that is not made
ExChoices(k, all) ==
    IF exans[k].status = "unasked" THEN all \cup {Unasked} ELSE {exans[k]}

InSeq(x, q) == \E j \in 1..Len(q) : q[j] = x

ExInit ==
    /\ exdb \in [ExRowIds -> ExRows]
    /\ exans = [k \in ExKeys |-> Unasked]
    /\ exrun = 1
    /\ expos = 0
    /\ expc = "run"
    /\ exn = 0
    /\ exupd = 0
    /\ exdb1 = exdb
    /\ exlog = [rowid |-> 0, asked |-> <<>>, writes |-> <<>>]
    /\ RowPark
    /\ FetchPark
    /\ S1Park
    /\ OldPark
    /\ RbPark
    /\ HttpPark
    /\ PurePark
    /\ AiPark
    /\ EgPark
    /\ StPark

\* the requests enrich_one can make for row i
ExOaKey == [i \in ExRowIds |-> ExKeyOa(ExIds[i])]
ExIdKey == [i \in ExRowIds |-> ExKeyId(ExIds[i])]
ExDoiKey == ExKeyTag("DOI", ExDoi)
ExArxivKey == ExKeyTag("arXiv", ExArxiv)

\* main: the next pid of yield_missing_papers, and enrich_one on it
ExEnrichOne ==
    /\ expc = "run"
    /\ ExToYield # {}
    /\ LET i == ExNextRow
           oa == ExKind[i] = "openalex"
       IN  \E aOa \in IF oa THEN ExChoices(ExOaKey[i], OaAnswers)
                       ELSE {exans[ExOaKey[i]]},
              aId \in IF oa THEN {exans[ExIdKey[i]]}
                       ELSE ExChoices(ExIdKey[i], S2Answers),
              aDoi \in IF oa THEN ExChoices(ExDoiKey, S2Answers)
                        ELSE {exans[ExDoiKey]},
              aArx \in IF oa THEN ExChoices(ExArxivKey, S2Answers)
                        ELSE {exans[ExArxivKey]} :
            LET o == enrich_one(exdb[i], i, aOa, aId, aDoi, aArx)
                given == (ExOaKey[i] :> aOa) @@ (ExIdKey[i] :> aId)
                         @@ (ExDoiKey :> aDoi) @@ (ExArxivKey :> aArx)
                         @@ exans
            IN  /\ \A k \in {ExOaKey[i], ExIdKey[i], ExDoiKey, ExArxivKey} :
                        IF InSeq(k, o.asked) THEN given[k] # Unasked
                        ELSE given[k] = exans[k]
                /\ exans' = given
                /\ exdb' = [exdb EXCEPT ![i] = o.row]
                /\ exupd' = exupd + Len(o.writes)
                /\ expc' = IF o.crashed THEN "crashed" ELSE "run"
                /\ exlog' = [rowid |-> i, asked |-> o.asked, writes |-> o.writes]
                /\ expos' = i
                /\ exn' = exn + 1
    /\ UNCHANGED <<exrun, exdb1, notExVars>>

\* the cursor is exhausted: main prints its summary
ExFinish ==
    /\ expc = "run"
    /\ ExToYield = {}
    /\ expc' = "finished"
    /\ UNCHANGED <<exdb, exans, exrun, expos, exn, exupd, exdb1, exlog,
                   notExVars>>

\* the script is started again on the table the last run left
ExRunAgain ==
    /\ expc \in {"finished", "crashed"}
    /\ exrun < ExRuns
    /\ exrun' = exrun + 1
    /\ expos' = 0
    /\ expc' = "run"
    /\ exn' = 0
    /\ exupd' = 0
    /\ exdb1' = exdb
    /\ UNCHANGED <<exdb, exans, exlog, notExVars>>

ExNext == ExEnrichOne \/ ExFinish \/ ExRunAgain

ExSpec == ExInit /\ [][ExNext]_vars

(***************************************************************************)
(* OLD/enrich_abstracts_batch.py: main, batch_semanticscholar,             *)
(* batch_openalex_by_ids and safe_request.  One step per HTTP answer; the  *)
(* two write-back loops of main are one step each.                         *)
(***************************************************************************)
\* the batch sizes (40 and 50 in the script) are scaled to the table
BATCH_SIZE_S2 == 2
BATCH_SIZE_OPENALEX == 2
MAX_RETRIES == 9

\* the paperId of the rows, in rowid order
OldIds ==
    <<"abababababababababababababababababababab",
      "cdcdcdcdcdcdcdcdcdcdcdcdcdcdcdcdcdcdcdcd",
      "W7",
      "https://openalex.org/W1">>

OldRowIds == 1..Len(OldIds)

\* what the sources hold about the paper of each row
OldS2Abstract == <<"S2 abstract a", "S2 abstract c", "S2 abstract W7", "S2 abstract W1">>
OldOaAbstract == <<"OA abstract a", "OA abstract c", "OA abstract W7", "OA abstract W1">>
OldArxivOf == <<"2401.00001", "2401.00002", "2401.00003", "2401.00004">>
OldDoiOf == <<"10.1/a", "10.1/c", "10.1/w7", "10.1/w1">>
OldOaIdOf ==
    <<"https://openalex.org/W11", "https://openalex.org/W12",
      "https://openalex.org/W13", "https://openalex.org/W1">>

\* a papers row before the run
OldRows ==
    [abstract : {NULL, "A0"}, references : {NULL}, citedBy : {NULL},
     authors : {NULL}, fieldsOfStudy : {NULL}, citationCount : {NULL},
     year : {"2019"}, publicationDate : {NULL}]

\* RE_OA.match(pid), RE_S2HEX.match(pid) for the paperId of every row
OldReOa == [i \in OldRowIds |-> MatchesOpenAlexUrl(OldIds[i])]
OldReS2Hex == [i \in OldRowIds |-> MatchesS2Hex(OldIds[i])]

\* the item of the /paper/batch answer that describes the paper of row i:
\* with an abstract, or without one and with ArXiv and DOI, with DOI only,
\* or with no externalIds
OldItemKinds == {"abs", "arxiv", "doi", "bare"}

OldItem(i, kind) ==
    [title |-> "T",
     abstract |-> IF kind = "abs" THEN OldS2Abstract[i] ELSE NULL,
     citationCount |-> "3",
     authors |-> <<[name |-> "n"]>>,
     fieldsOfStudy |-> <<>>,
     year |-> "2021",
     publicationDate |-> NULL,
     references |-> <<[paperId |-> "r9"], [paperId |-> NULL]>>,
     externalIds |->
        IF kind = "arxiv" THEN [ArXiv |-> OldArxivOf[i], DOI |-> OldDoiOf[i]]
        ELSE IF kind = "doi" THEN [DOI |-> OldDoiOf[i]]
        ELSE NoDict]

\* chunk(seq, n): the k-th group, and the number of groups
Chunk(q, n, k) == SubSeq(q, (k - 1) * n + 1, Min(k * n, Len(q)))
NumChunks(q, n) == (Len(q) + n - 1) \div n

SeqToSet(q) == {q[j] : j \in 1..Len(q)}

\* the arrays Semantic Scholar may answer a group with: one slot per
\* requested id (null where it knows none), and also fewer slots or the
\* slots in another order; no paper twice
OldS2Slots(group) ==
    {[of |-> 0, kind |-> "null"]}
    \cup [of : SeqToSet(group), kind : OldItemKinds]

OldS2Arrays(group) ==
    {a \in UNION {[1..n -> OldS2Slots(group)] : n \in 0..Len(group)} :
        \A j, k \in DOMAIN a : (j # k /\ a[j].of # 0) => a[j].of # a[k].of}

OldSlotItem(slot) ==
    IF slot.kind = "null" THEN NoDict ELSE OldItem(slot.of, slot.kind)

\* for q_id, item in zip(group, arr): out[q_id] = item or {}
RECURSIVE OldZipInto(_, _, _, _)
OldZipInto(out, group, arr, j) ==
    IF j > Len(group) \/ j > Len(arr) THEN out
    ELSE OldZipInto(Append(out, [key |-> group[j], item |-> OldSlotItem(arr[j])]),
                    group, arr, j + 1)

\* meta and refs as main builds them from an item
OldMeta(item, abstract) ==
    [title |-> Get(item, "title", ""),
     abstract |-> abstract,
     citationCount |-> Get(item, "citationCount", NULL),
     authors |-> [j \in 1..Len(Get(item, "authors", <<>>)) |->
                    Get(item.authors[j], "name", "")],
     fieldsOfStudy |-> Get(item, "fieldsOfStudy", <<>>),
     year |-> Get(item, "year", NULL),
     publicationDate |-> Get(item, "publicationDate", NULL)]

RECURSIVE OldRefsFrom(_)
OldRefsFrom(l) ==
    IF l = <<>> THEN <<>>
    ELSE IF Truthy(Get(Head(l), "paperId", NULL))
    THEN <<Head(l).paperId>> \o OldRefsFrom(Tail(l))
    ELSE OldRefsFrom(Tail(l))

OldRefs(item) == OldRefsFrom(Get(item, "references", <<>>))

\* the row whose paperId is key
OldRowOf == [i \in OldRowIds |-> i]

\* main, lines 187-213: write the Semantic Scholar abstracts back and queue
\* the OpenAlex fallbacks
RECURSIVE OldS2WriteLoop(_, _, _)
OldS2WriteLoop(acc, out, j) ==
    IF j > Len(out) THEN acc
    ELSE LET key == out[j].key
             item == out[j].item
             abstract == Or(Get(item, "abstract", NULL), "")
             ext_ids == Get(item, "externalIds", NoDict)
         IN  IF ~Truthy(abstract)
             THEN OldS2WriteLoop(
                    IF Truthy(Get(ext_ids, "ArXiv", NULL))
                    THEN [acc EXCEPT !.arxiv = Append(@, ext_ids.ArXiv)]
                    ELSE IF Truthy(Get(ext_ids, "DOI", NULL))
                    THEN [acc EXCEPT !.dois = Append(@, ext_ids.DOI)]
                    ELSE acc,
                    out, j + 1)
             ELSE OldS2WriteLoop(
                    [acc EXCEPT
                        !.db[OldRowOf[key]] =
                            OldUpdateRow(@, OldMeta(item, abstract),
                                         OldRefs(item), <<>>),
                        !.updated = @ + 1],
                    out, j + 1)

\* list(dict.fromkeys(l))
RECURSIVE Dedupe(_)
Dedupe(l) ==
    IF l = <<>> THEN <<>>
    ELSE LET d == Dedupe(ButLast(l))
         IN  IF InSeq(Last(l), d) THEN d ELSE Append(d, Last(l))

\* the first non-empty abstract of oa_abs, None if there is none
RECURSIVE OldAnyOaAbstract(_)
OldAnyOaAbstract(oa) ==
    IF oa = <<>> THEN NULL
    ELSE IF Truthy(Head(oa).abstract) THEN Head(oa).abstract
    ELSE OldAnyOaAbstract(Tail(oa))

\* main, lines 230-261: write the OpenAlex fallback abstracts back
RECURSIVE OldOaWriteLoop(_, _, _, _)
OldOaWriteLoop(acc, out, oa, j) ==
    IF j > Len(out) THEN acc
    ELSE LET key == out[j].key
             item == out[j].item
             ext_ids == Get(item, "externalIds", NoDict)
             oa_hit == IF Truthy(Get(ext_ids, "ArXiv", NULL))
                          \/ Truthy(Get(ext_ids, "DOI", NULL))
                       THEN OldAnyOaAbstract(oa) ELSE NULL
         IN  IF ~TruthyDict(item) \/ Truthy(Or(Get(item, "abstract", NULL), ""))
                \/ ~Truthy(oa_hit)
             THEN OldOaWriteLoop(acc, out, oa, j + 1)
             ELSE OldOaWriteLoop(
                    [acc EXCEPT
                        !.db[OldRowOf[key]] =
                            OldUpdateRow(@, OldMeta(item, oa_hit),
                                         OldRefs(item), <<>>),
                        !.updated = @ + 1],
                    out, oa, j + 1)

\* the works OpenAlex may answer a filter group with: for each requested
\* value the work of that paper, with an abstract or without, or nothing
OldOaWorkKinds == {"abs", "noabs", "absent"}

OldPaperOf(key, value) ==
    CHOOSE i \in OldRowIds :
        IF key = "ids.doi" THEN OldDoiOf[i] = value ELSE OldArxivOf[i] = value

RECURSIVE OldOaResults(_, _, _, _)
OldOaResults(results, key, group, kinds) ==
    IF group = <<>> THEN results
    ELSE LET i == OldPaperOf(key, Head(group))
             w == [id |-> OldOaIdOf[i],
                   abstract |-> IF Head(kinds) = "abs" THEN OldOaAbstract[i]
                                ELSE NULL]
         IN  OldOaResults(
                IF Head(kinds) = "absent" THEN results ELSE Append(results, w),
                key, Tail(group), Tail(kinds))

\* fetch_missing_ids
OldIsMissing(i) == odb[i].abstract = NULL \/ odb[i].abstract = ""

RECURSIVE OldSelect(_, _)
OldSelect(q, S) ==
    IF q = <<>> THEN <<>>
    ELSE IF Head(q) \in S THEN <<Head(q)>> \o OldSelect(Tail(q), S)
    ELSE OldSelect(Tail(q), S)

OldAllRows == [i \in OldRowIds |-> i]

\* id_groups[key]
OldIdGroup(key) == IF key = "ids.doi" THEN ofallback.dois ELSE ofallback.arxiv

\* the group the running request is for
OldGroup ==
    IF opc = "s2batch" THEN Chunk(oquery, BATCH_SIZE_S2, ogrp)
    ELSE Chunk(OldIdGroup(okey), BATCH_SIZE_OPENALEX, ogrp)

OldInit ==
    /\ odb \in [OldRowIds -> OldRows]
    /\ opc = "start"
    /\ omissing = <<>>
    /\ opart = [oa_pids |-> <<>>, s2_hex |-> <<>>, unknown |-> <<>>]
    /\ oquery = <<>>
    /\ okey = "none"
    /\ ogrp = 0
    /\ oattempt = 0
    /\ oout = <<>>
    /\ ofallback = [dois |-> <<>>, arxiv |-> <<>>]
    /\ ooa = <<>>
    /\ oupdated = 0
    /\ RowPark
    /\ FetchPark
    /\ S1Park
    /\ ExPark
    /\ RbPark
    /\ HttpPark
    /\ PurePark
    /\ AiPark
    /\ EgPark
    /\ StPark

\* main, lines 163-185: select, partition, build s2_query_ids
OldStart ==
    /\ opc = "start"
    /\ LET missing == OldSelect(OldAllRows, {i \in OldRowIds : OldIsMissing(i)})
           oa_pids == OldSelect(missing, {i \in OldRowIds : OldReOa[i]})
           s2_hex == OldSelect(missing, {i \in OldRowIds : OldReS2Hex[i]})
           unknown == OldSelect(missing, {i \in OldRowIds :
                          ~InSeq(i, oa_pids) /\ ~InSeq(i, s2_hex)})
           s2_query_ids == s2_hex \o unknown
       IN  /\ omissing' = missing
           /\ IF missing = <<>>
              THEN /\ opc' = "done"
                   /\ UNCHANGED <<opart, oquery, ogrp>>
              ELSE /\ opart' = [oa_pids |-> oa_pids, s2_hex |-> s2_hex,
                                unknown |-> unknown]
                   /\ oquery' = s2_query_ids
                   /\ opc' = IF s2_query_ids # <<>> THEN "s2batch" ELSE "done"
                   /\ ogrp' = IF s2_query_ids # <<>> THEN 1 ELSE 0
    /\ UNCHANGED <<odb, okey, oattempt, oout, ofallback, ooa, oupdated,
                   notOldVars>>

\* safe_request: 429 or 5xx, sleep and try again
SafeRequestRetry ==
    /\ opc \in {"s2batch", "oabatch"}
    /\ oattempt + 1 < MAX_RETRIES
    /\ oattempt' = oattempt + 1
    /\ UNCHANGED <<odb, opc, omissing, opart, oquery, okey, ogrp, oout,
                   ofallback, ooa, oupdated, notOldVars>>

\* safe_request: 429 or 5xx on the last attempt, sleep and raise HTTPError;
\* nothing between safe_request and the end of main catches it
SafeRequestGiveUp ==
    /\ opc \in {"s2batch", "oabatch"}
    /\ oattempt + 1 = MAX_RETRIES
    /\ oattempt' = oattempt + 1
    /\ opc' = "aborted"
    /\ UNCHANGED <<odb, omissing, opart, oquery, okey, ogrp, oout, ofallback,
                   ooa, oupdated, notOldVars>>

\* safe_request: another error status (raise_for_status) or an exception of
\* requests itself
SafeRequestRaise ==
    /\ opc \in {"s2batch", "oabatch"}
    /\ opc' = "aborted"
    /\ UNCHANGED <<odb, omissing, opart, oquery, okey, ogrp, oattempt, oout,
                   ofallback, ooa, oupdated, notOldVars>>

\* batch_semanticscholar: a group is answered with 200
OldS2BatchOk ==
    /\ opc = "s2batch"
    /\ \E arr \in OldS2Arrays(OldGroup) :
        oout' = OldZipInto(oout, OldGroup, arr, 1)
    /\ oattempt' = 0
    /\ IF ogrp < NumChunks(oquery, BATCH_SIZE_S2)
       THEN ogrp' = ogrp + 1 /\ opc' = opc
       ELSE ogrp' = 0 /\ opc' = "s2write"
    /\ UNCHANGED <<odb, omissing, opart, oquery, okey, ofallback, ooa,
                   oupdated, notOldVars>>

\* main, lines 187-224: the write-back loop over s2_results, then the
\* fallback lists
OldS2Write ==
    /\ opc = "s2write"
    /\ LET acc == OldS2WriteLoop(
                    [db |-> odb, dois |-> <<>>, arxiv |-> <<>>,
                     updated |-> oupdated], oout, 1)
           fallback_dois == Dedupe(acc.dois)
           fallback_arxiv == Dedupe(acc.arxiv)
       IN  /\ odb' = acc.db
           /\ oupdated' = acc.updated
           /\ ofallback' = [dois |-> fallback_dois, arxiv |-> fallback_arxiv]
           /\ IF fallback_dois # <<>> \/ fallback_arxiv # <<>>
              THEN /\ opc' = "oabatch"
                   /\ okey' = IF fallback_dois # <<>> THEN "ids.doi"
                              ELSE "ids.arxiv"
                   /\ ogrp' = 1
              ELSE /\ opc' = "done"
                   /\ UNCHANGED <<okey, ogrp>>
    /\ UNCHANGED <<omissing, opart, oquery, oattempt, oout, ooa, notOldVars>>

\* batch_openalex_by_ids: a group is answered with 200
OldOaBatchOk ==
    /\ opc = "oabatch"
    /\ \E kinds \in [1..Len(OldGroup) -> OldOaWorkKinds] :
        ooa' = OldOaResults(ooa, okey, OldGroup, kinds)
    /\ oattempt' = 0
    /\ IF ogrp < NumChunks(OldIdGroup(okey), BATCH_SIZE_OPENALEX)
       THEN ogrp' = ogrp + 1 /\ UNCHANGED <<opc, okey>>
       ELSE IF okey = "ids.doi" /\ ofallback.arxiv # <<>>
       THEN ogrp' = 1 /\ okey' = "ids.arxiv" /\ opc' = opc
       ELSE ogrp' = 0 /\ okey' = "none" /\ opc' = "oawrite"
    /\ UNCHANGED <<odb, omissing, opart, oquery, oout, ofallback, oupdated,
                   notOldVars>>

\* main, lines 230-263: the write-back loop of the OpenAlex fallback
OldOaWrite ==
    /\ opc = "oawrite"
    /\ LET acc == OldOaWriteLoop([db |-> odb, updated |-> oupdated],
                                 oout, ooa, 1)
       IN  /\ odb' = acc.db
           /\ oupdated' = acc.updated
    /\ opc' = "done"
    /\ UNCHANGED <<omissing, opart, oquery, okey, ogrp, oattempt, oout,
                   ofallback, ooa, notOldVars>>

OldNext ==
    \/ OldStart
    \/ SafeRequestRetry
    \/ SafeRequestGiveUp
    \/ SafeRequestRaise
    \/ OldS2BatchOk
    \/ OldS2Write
    \/ OldOaBatchOk
    \/ OldOaWrite

OldSpec == OldInit /\ [][OldNext]_vars

(***************************************************************************)
(* rebuild_citations_openalex.py: rebuild_citations and main, run again    *)
(* and again on one database without --reset; a run may be interrupted     *)
(* (KeyboardInterrupt) between any two steps.  executemany and commit are  *)
(* separate steps.                                                         *)
(***************************************************************************)
id_chunk_size == 3
batch_size == 2
RbMaxRuns == 3

\* papers.paperId, in table order
RbPapers == <<"W1", "W2", "W3", "W4">>

\* f"https://openalex.org/{pid}"
RbUrl(pid) == "https://openalex.org/" \o pid

\* s.rsplit("/", 1)[-1]
RSplitLast(s) == Last(Split(s, "/"))

\* referenced_works of each paper as OpenAlex holds them
RbReferenced ==
    ("W1" :> <<RbUrl("W2"), RbUrl("W3")>>) @@ ("W2" :> <<RbUrl("W9")>>)
    @@ ("W3" :> <<>>) @@ ("W4" :> <<RbUrl("W1")>>)

RbUrls == {RbUrl(w) : w \in {"W1", "W2", "W3", "W4", "W9"}}

\* the W-id of every URL of the model
RbWId == [u \in RbUrls |-> RSplitLast(u)]

\* a work of an OpenAlex answer: with its references, or with none listed
RbWorkKinds == {"refs", "norefs", "absent"}

RbWork(pid, kind) ==
    [id |-> RbUrl(pid),
     referenced_works |-> IF kind = "refs" THEN RbReferenced[pid] ELSE <<>>]

\* the results of a batch answer: works that were requested, each at most once
RECURSIVE RbResults(_, _)
RbResults(batch, kinds) ==
    IF batch = <<>> THEN <<>>
    ELSE (IF Head(kinds) = "absent" THEN <<>>
          ELSE <<RbWork(Head(batch), Head(kinds))>>)
         \o RbResults(Tail(batch), Tail(kinds))

\* get_done_sources with nothing to skip
get_done_sources_none(cit) == {}

\* get_done_sources: SELECT DISTINCT source FROM citations
get_done_sources(cit) == {cit[j][1] : j \in 1..Len(cit)}

\* [pid for pid in id_chunk if pid not in done_sources]
RECURSIVE RbRemaining(_, _)
RbRemaining(id_chunk, done) ==
    IF id_chunk = <<>> THEN <<>>
    ELSE (IF Head(id_chunk) \in done THEN <<>> ELSE <<Head(id_chunk)>>)
         \o RbRemaining(Tail(id_chunk), done)

\* the rows of one item: (src, target) for every reference
RbItemRows(item) ==
    [j \in 1..Len(item.referenced_works) |->
        <<RbWId[item.id], RbWId[item.referenced_works[j]]>>]

\* lines 225-234: the rows of `results`
RECURSIVE RbRows(_)
RbRows(res) ==
    IF res = <<>> THEN <<>>
    ELSE RbItemRows(Head(res)) \o RbRows(Tail(res))

\* the batch the inner loop is at
RbBatch == Chunk(remaining_ids, batch_size, rbatch)

\* the loop position after the batch: the next batch, or the next id_chunk
RbAfterBatch ==
    IF rbatch < NumChunks(remaining_ids, batch_size)
    THEN /\ rbatch' = rbatch + 1
         /\ rpc' = "batch"
         /\ UNCHANGED <<roffset, remaining_ids>>
    ELSE /\ rbatch' = 0
         /\ rpc' = "chunk"
         /\ roffset' = roffset + id_chunk_size
         /\ remaining_ids' = <<>>

RbInit ==
    /\ rcit = <<>>
    /\ rtxn = <<>>
    /\ rpc = "idle"
    /\ rrun = 0
    /\ rlast = "none"
    /\ done_sources = {}
    /\ roffset = 0
    /\ remaining_ids = <<>>
    /\ rbatch = 0
    /\ rsingle = 0
    /\ rresults = <<>>
    /\ rreq = {}
    /\ RowPark
    /\ FetchPark
    /\ S1Park
    /\ ExPark
    /\ OldPark
    /\ HttpPark
    /\ PurePark
    /\ AiPark
    /\ EgPark
    /\ StPark

\* lines 151-167: connect, ensure_citations_table(reset=False),
\* get_done_sources
RbStartRun ==
    /\ rpc = "idle"
    /\ rrun < RbMaxRuns
    /\ rrun' = rrun + 1
    /\ done_sources' = get_done_sources(rcit)
    /\ roffset' = 0
    /\ rpc' = "chunk"
    /\ rreq' = {}
    /\ UNCHANGED <<rcit, rtxn, rlast, remaining_ids, rbatch, rsingle, rresults,
                   notRbVars>>

\* lines 170-187: the next id_chunk of iter_paper_id_chunks; lines 259-265
\* when there is none
RbNextChunk ==
    /\ rpc = "chunk"
    /\ LET id_chunk == SubSeq(RbPapers, roffset + 1,
                              Min(roffset + id_chunk_size, Len(RbPapers)))
           remaining == RbRemaining(id_chunk, done_sources)
       IN  IF id_chunk = <<>>
           THEN /\ rpc' = "idle"
                /\ rlast' = "completed"
                /\ done_sources' = {}
                /\ roffset' = 0
                /\ UNCHANGED <<remaining_ids, rbatch>>
           ELSE IF remaining = <<>>
           THEN /\ roffset' = roffset + id_chunk_size
                /\ UNCHANGED <<rpc, rlast, done_sources, remaining_ids, rbatch>>
           ELSE /\ remaining_ids' = remaining
                /\ rbatch' = 1
                /\ rpc' = "batch"
                /\ UNCHANGED <<rlast, done_sources, roffset>>
    /\ rreq' = {}
    /\ UNCHANGED <<rcit, rtxn, rrun, rsingle, rresults, notRbVars>>

\* lines 196-198: fetch_batch_fullurls answers
RbFetchBatchOk ==
    /\ rpc = "batch"
    /\ \E kinds \in [1..Len(RbBatch) -> RbWorkKinds] :
        rresults' = RbResults(RbBatch, kinds)
    /\ rreq' = SeqToSet(RbBatch)
    /\ rpc' = "rows"
    /\ UNCHANGED <<rcit, rtxn, rrun, rlast, done_sources, roffset,
                   remaining_ids, rbatch, rsingle, notRbVars>>

\* lines 199-205: fetch_batch_fullurls raises HTTPError
RbFetchBatchHTTPError ==
    /\ rpc = "batch"
    /\ rreq' = SeqToSet(RbBatch)
    /\ rresults' = <<>>
    /\ rsingle' = 1
    /\ rpc' = "single"
    /\ UNCHANGED <<rcit, rtxn, rrun, rlast, done_sources, roffset,
                   remaining_ids, rbatch, notRbVars>>

\* lines 218-222: fetch_batch_fullurls raises another exception
RbFetchBatchException ==
    /\ rpc = "batch"
    /\ rreq' = SeqToSet(RbBatch)
    /\ RbAfterBatch
    /\ UNCHANGED <<rcit, rtxn, rrun, rlast, done_sources, rsingle, rresults,
                   notRbVars>>

\* lines 206-217: one turn of the per-ID loop, fetch_single_fullurl answers
\* or raises
RbFetchSingle ==
    /\ rpc = "single"
    /\ \E kind \in RbWorkKinds :
        rresults' = rresults \o RbResults(<<RbBatch[rsingle]>>, <<kind>>)
    /\ rreq' = {RbBatch[rsingle]}
    /\ IF rsingle < Len(RbBatch)
       THEN rsingle' = rsingle + 1 /\ rpc' = rpc
       ELSE rsingle' = 0 /\ rpc' = "rows"
    /\ UNCHANGED <<rcit, rtxn, rrun, rlast, done_sources, roffset,
                   remaining_ids, rbatch, notRbVars>>

\* lines 225-240: build rows, mark the sources done, executemany
RbInsertRows ==
    /\ rpc = "rows"
    /\ LET rows == RbRows(rresults)
       IN  /\ done_sources' = done_sources
                \cup {RbWId[rresults[j].id] : j \in 1..Len(rresults)}
           /\ rresults' = <<>>
           /\ rreq' = {}
           /\ IF rows # <<>>
              THEN /\ rtxn' = rows
                   /\ rpc' = "commit"
                   /\ UNCHANGED <<roffset, remaining_ids, rbatch>>
              ELSE /\ rtxn' = rtxn
                   /\ RbAfterBatch
    /\ UNCHANGED <<rcit, rrun, rlast, rsingle, notRbVars>>

\* lines 241-250: conn.commit()
RbCommit ==
    /\ rpc = "commit"
    /\ rcit' = rcit \o rtxn
    /\ rtxn' = <<>>
    /\ rreq' = {}
    /\ RbAfterBatch
    /\ UNCHANGED <<rrun, rlast, done_sources, rsingle, rresults, notRbVars>>

\* an interruption under which the rows executemany has already inserted
\* stay in the table (a connection in autocommit mode)
RbInterruptAutocommit ==
    /\ rpc \in {"chunk", "batch", "single", "rows", "commit"}
    /\ rpc' = "idle"
    /\ rlast' = "interrupted"
    /\ \E n \in 0..Len(rtxn) : rcit' = rcit \o SubSeq(rtxn, 1, n)
    /\ rtxn' = <<>>
    /\ done_sources' = {}
    /\ roffset' = 0
    /\ remaining_ids' = <<>>
    /\ rbatch' = 0
    /\ rsingle' = 0
    /\ rresults' = <<>>
    /\ rreq' = {}
    /\ UNCHANGED <<rrun, notRbVars>>

\* main, lines 311-313: KeyboardInterrupt; the process ends, the open
\* transaction is rolled back
RbInterrupt ==
    /\ rpc \in {"chunk", "batch", "single", "rows", "commit"}
    /\ rpc' = "idle"
    /\ rlast' = "interrupted"
    /\ rtxn' = <<>>
    /\ done_sources' = {}
    /\ roffset' = 0
    /\ remaining_ids' = <<>>
    /\ rbatch' = 0
    /\ rsingle' = 0
    /\ rresults' = <<>>
    /\ rreq' = {}
    /\ UNCHANGED <<rcit, rrun, notRbVars>>

RbNext ==
    \/ RbStartRun
    \/ RbNextChunk
    \/ RbFetchBatchOk
    \/ RbFetchBatchHTTPError
    \/ RbFetchBatchException
    \/ RbFetchSingle
    \/ RbInsertRows
    \/ RbCommit
    \/ RbInterrupt

RbSpec == RbInit /\ [][RbNext]_vars

(***************************************************************************)
(* safe_request, OLD/enrich_abstracts_batch.py: one call, one step per     *)
(* answer of requests.get / requests.post.  Times are milliseconds, the    *)
(* jitter of jbackoff is left out.                                         *)
(***************************************************************************)
BASE_DELAY_MS == 1800

\* REQ_TIMEOUT_S, and the timeout=60 of every urlopen call, in milliseconds
REQ_TIMEOUT_MS == 60000

\* HTTP statuses of the model
HttpStatuses == {200, 304, 404, 429, 500, 502, 503, 504}

\* Retry-After: absent, seconds, or an HTTP date
RetryAfterValues == {NULL, "7", "1.5", "Wed, 21 Oct 2015 07:28:00 GMT"}

RECURSIVE Pow2(_)
Pow2(n) == IF n = 0 THEN 1 ELSE 2 * Pow2(n - 1)

\* jbackoff(attempt) without the jitter
jbackoff(a) == BASE_DELAY_MS * Pow2(a)

\* s.replace(".", "", 1)
ReplaceFirstDot(s) ==
    LET i == FirstPos(s, ".")
    IN  IF i = 0 THEN s ELSE SubSeq(s, 1, i - 1) \o DropFirst(s, i)

DigitVal(c) == CHOOSE n \in 0..9 : <<"0", "1", "2", "3", "4", "5", "6", "7", "8", "9">>[n + 1] = c

RECURSIVE DigitsToNat(_)
DigitsToNat(s) ==
    IF Len(s) = 0 THEN 0
    ELSE 10 * DigitsToNat(SubSeq(s, 1, Len(s) - 1)) + DigitVal(CharAt(s, Len(s)))

\* float(s) in milliseconds, for digits with at most one "."
FloatMillis(s) ==
    LET parts == Split1(s, ".")
        frac == IF Len(parts) = 2 THEN SubSeq(parts[2] \o "000", 1, 3) ELSE "000"
    IN  1000 * DigitsToNat(parts[1]) + DigitsToNat(frac)

\* ra and ra.replace(".", "", 1).isdigit()
RetryAfterNumeric(ra) == Truthy(ra) /\ IsDigits(ReplaceFirstDot(ra))

\* raise_for_status raises for 400..599
RaisesForStatus(status) == 400 <= status /\ status < 600

SrInit ==
    /\ hfn = "safe_request"
    /\ hpc = "loop"
    /\ hattempt = 0
    /\ hsent = 0
    /\ hsleeps = 0
    /\ hwait = 0
    /\ hresp = [status |-> 0, ra |-> NULL]
    /\ hresult = "none"
    /\ RowPark
    /\ FetchPark
    /\ S1Park
    /\ ExPark
    /\ OldPark
    /\ RbPark
    /\ PurePark
    /\ AiPark
    /\ EgPark
    /\ StPark

\* lines 40 and 44, `continue`: the next turn of `for attempt in
\* range(max_retries)`, or line 48 when there is none
SrContinue ==
    /\ hattempt' = hattempt + 1
    /\ IF hattempt + 1 < MAX_RETRIES
       THEN hpc' = "loop" /\ hresult' = hresult
       ELSE hpc' = "done" /\ hresult' = "HTTPError: giving up"

\* lines 36-40: 429
SrStatus429 ==
    /\ hfn = "safe_request" /\ hpc = "loop"
    /\ \E ra \in RetryAfterValues :
        /\ hresp' = [status |-> 429, ra |-> ra]
        /\ hwait' = IF RetryAfterNumeric(ra) THEN FloatMillis(ra)
                    ELSE jbackoff(hattempt)
    /\ hsent' = hsent + 1
    /\ hsleeps' = hsleeps + 1
    /\ SrContinue
    /\ UNCHANGED <<hfn, notHttpVars>>

\* lines 41-44: 5xx
SrStatus5xx ==
    /\ hfn = "safe_request" /\ hpc = "loop"
    /\ \E st \in {s \in HttpStatuses : 500 <= s /\ s < 600},
          ra \in RetryAfterValues :
        hresp' = [status |-> st, ra |-> ra]
    /\ hwait' = jbackoff(hattempt)
    /\ hsent' = hsent + 1
    /\ hsleeps' = hsleeps + 1
    /\ SrContinue
    /\ UNCHANGED <<hfn, notHttpVars>>

\* lines 46-47: any other status; raise_for_status, else return r
SrStatusOther ==
    /\ hfn = "safe_request" /\ hpc = "loop"
    /\ \E st \in {s \in HttpStatuses : s # 429 /\ ~(500 <= s /\ s < 600)} :
        /\ hresp' = [status |-> st, ra |-> NULL]
        /\ hresult' = IF RaisesForStatus(st) THEN "HTTPError: status"
                      ELSE "returned"
    /\ hsent' = hsent + 1
    /\ hwait' = 0
    /\ hpc' = "done"
    /\ UNCHANGED <<hfn, hattempt, hsleeps, notHttpVars>>

\* lines 32 and 34: requests raises (Timeout, ConnectionError); nothing in
\* safe_request catches it
SrException ==
    /\ hfn = "safe_request" /\ hpc = "loop"
    /\ hresp' = [status |-> 0, ra |-> NULL]
    /\ hresult' = "RequestException"
    /\ hsent' = hsent + 1
    /\ hwait' = 0
    /\ hpc' = "done"
    /\ UNCHANGED <<hfn, hattempt, hsleeps, notHttpVars>>

SrNext == SrStatus429 \/ SrStatus5xx \/ SrStatusOther \/ SrException

SrSpec == SrInit /\ [][SrNext]_vars

(***************************************************************************)
(* The urllib fetchers: safe_get_json and safe_post_json of                *)
(* stage_1_enrich_identifiers.py, http_get and http_post_json of           *)
(* stage_2_fetch_abstracts_from_s2.py, safe_get_json of import_openalex.py.*)
(* One call, one step per answer of urllib.request.urlopen, which raises   *)
(* HTTPError for every status outside 200..299.  Times are milliseconds.   *)
(***************************************************************************)
HgFns ==
    {"s1.safe_get_json", "s1.safe_post_json", "s2.http_get",
     "s2.http_post_json", "import.safe_get_json"}

\* the default max_retries / retries of each fetcher
HgMaxRetries(fn) ==
    IF fn \in {"s1.safe_post_json", "s2.http_post_json"} THEN 8 ELSE 6

\* the default base_sleep of each fetcher
HgBaseSleep(fn) ==
    CASE fn = "s1.safe_get_json" -> 800
      [] fn = "s1.safe_post_json" -> 1000
      [] fn = "s2.http_get" -> 1200
      [] fn = "s2.http_post_json" -> 1200
      [] fn = "import.safe_get_json" -> 800

\* e.code in (429,500,502,503)
HgRetryCodes == {429, 500, 502, 503}

\* the Retry-After value the fetcher reads: stage 1's POST reads it only on
\* 429, import_openalex never reads it
HgRetryAfterRead(fn, st, ra) ==
    CASE fn = "s1.safe_post_json" -> IF st = 429 THEN ra ELSE NULL
      [] fn = "import.safe_get_json" -> NULL
      [] OTHER -> ra

\* float(ra) returns, for the Retry-After values of the model: digits with
\* at most one "."; an HTTP date raises ValueError
PyFloatParses(ra) == IsDigits(ReplaceFirstDot(ra))

\* base_sleep * attempt
HgBackoff(fn, a) == HgBaseSleep(fn) * a

HgInit ==
    /\ hfn \in HgFns
    /\ hpc = "loop"
    /\ hattempt = 1
    /\ hsent = 0
    /\ hsleeps = 0
    /\ hwait = 0
    /\ hresp = [status |-> 0, ra |-> NULL]
    /\ hresult = "none"
    /\ RowPark
    /\ FetchPark
    /\ S1Park
    /\ ExPark
    /\ OldPark
    /\ RbPark
    /\ PurePark
    /\ AiPark
    /\ EgPark
    /\ StPark

\* urlopen returns: the body is returned
HgReturn ==
    /\ hfn \in HgFns /\ hpc = "loop"
    /\ hresp' = [status |-> 200, ra |-> NULL]
    /\ hsent' = hsent + 1
    /\ hwait' = 0
    /\ hresult' = "returned"
    /\ hpc' = "done"
    /\ UNCHANGED <<hfn, hattempt, hsleeps, notHttpVars>>

\* HTTPError with a code of the tuple while attempt < max_retries: wait,
\* sleep, continue; float(ra) raises ValueError out of the handler
HgHTTPErrorRetry ==
    /\ hfn \in HgFns /\ hpc = "loop"
    /\ hattempt < HgMaxRetries(hfn)
    /\ \E st \in HttpStatuses \cap HgRetryCodes, ra \in RetryAfterValues :
        LET seen == HgRetryAfterRead(hfn, st, ra)
        IN  /\ hresp' = [status |-> st, ra |-> ra]
            /\ IF Truthy(seen) /\ ~PyFloatParses(seen)
               THEN /\ hresult' = "ValueError"
                    /\ hpc' = "done"
                    /\ hwait' = 0
                    /\ UNCHANGED <<hattempt, hsleeps>>
               ELSE /\ hwait' = IF Truthy(seen) THEN FloatMillis(seen)
                                ELSE HgBackoff(hfn, hattempt)
                    /\ hsleeps' = hsleeps + 1
                    /\ hattempt' = hattempt + 1
                    /\ hpc' = "loop"
                    /\ hresult' = hresult
    /\ hsent' = hsent + 1
    /\ UNCHANGED <<hfn, notHttpVars>>

\* HTTPError with any other code, or on the last attempt: RuntimeError
HgHTTPErrorRaise ==
    /\ hfn \in HgFns /\ hpc = "loop"
    /\ \E st \in HttpStatuses \ {200}, ra \in RetryAfterValues :
        /\ ~(st \in HgRetryCodes /\ hattempt < HgMaxRetries(hfn))
        /\ hresp' = [status |-> st, ra |-> ra]
    /\ hsent' = hsent + 1
    /\ hwait' = 0
    /\ hresult' = "RuntimeError"
    /\ hpc' = "done"
    /\ UNCHANGED <<hfn, hattempt, hsleeps, notHttpVars>>

\* URLError (timeout, refused connection): retried while attempt <
\* max_retries, re-raised on the last attempt
HgURLError ==
    /\ hfn \in HgFns /\ hpc = "loop"
    /\ hresp' = [status |-> 0, ra |-> NULL]
    /\ hsent' = hsent + 1
    /\ IF hattempt < HgMaxRetries(hfn)
       THEN /\ hwait' = HgBackoff(hfn, hattempt)
            /\ hsleeps' = hsleeps + 1
            /\ hattempt' = hattempt + 1
            /\ hpc' = "loop"
            /\ hresult' = hresult
       ELSE /\ hwait' = 0
            /\ hresult' = "URLError"
            /\ hpc' = "done"
            /\ UNCHANGED <<hattempt, hsleeps>>
    /\ UNCHANGED <<hfn, notHttpVars>>

HgNext == HgReturn \/ HgHTTPErrorRetry \/ HgHTTPErrorRaise \/ HgURLError

HgSpec == HgInit /\ [][HgNext]_vars

\* safe_request and the urllib fetchers side by side: one call of one of them
HttpInit == SrInit \/ HgInit

HttpNext == SrNext \/ HgNext

HttpSpec == HttpInit /\ [][HttpNext]_vars

(***************************************************************************)
(* Reconstruction of an abstract from OpenAlex's abstract_inverted_index:  *)
(* reconstruct_openalex_abstract of extract_semantic_scholar.py, of        *)
(* OLD/enrich_abstracts_batch.py and of import_openalex.py, and the loop   *)
(* of oa_fetch_abstract_by_wid in stage_2_fetch_abstracts_from_s2.py.      *)
(* An index is the sequence of the dict's items, [tok, pos], in the dict's *)
(* order.  The input is a text given as the word at each position, with    *)
(* RcGap at a position the index leaves out.                               *)
(***************************************************************************)
RcMaxLen == 3

RcWords == {"a", "b"}

RcGap == NULL

RcImpls == {"extract", "OLD", "stage2", "import"}

RECURSIVE RcTexts(_)
RcTexts(n) ==
    IF n = 0 THEN {<<>>}
    ELSE RcTexts(n - 1)
         \cup {Append(t, w) : t \in {u \in RcTexts(n - 1) : Len(u) = n - 1},
                              w \in RcWords \cup {RcGap}}

\* the words of a text in the order of their first occurrence
RECURSIVE RcKeys(_)
RcKeys(ws) ==
    IF Len(ws) = 0 THEN <<>>
    ELSE LET k == RcKeys(ButLast(ws))
         IN  IF Last(ws) = RcGap \/ InSeq(Last(ws), k) THEN k
             ELSE Append(k, Last(ws))

\* the positions of word w in a text, from 0, ascending
RECURSIVE RcPositions(_, _)
RcPositions(ws, w) ==
    IF Len(ws) = 0 THEN <<>>
    ELSE IF Last(ws) = w THEN Append(RcPositions(ButLast(ws), w), Len(ws) - 1)
    ELSE RcPositions(ButLast(ws), w)

\* the inverted index {word: list of positions} of a text
RcForwardIndex(ws) ==
    LET k == RcKeys(ws)
    IN  [j \in 1..Len(k) |-> [tok |-> k[j], pos |-> RcPositions(ws, k[j])]]

\* m[p] = w
RcAssign(m, p, w) ==
    [x \in (DOMAIN m) \cup {p} |-> IF x = p THEN w ELSE m[x]]

RECURSIVE RcAssignAll(_, _, _)
RcAssignAll(m, poss, w) ==
    IF Len(poss) = 0 THEN m
    ELSE RcAssignAll(RcAssign(m, Head(poss), w), Tail(poss), w)

\* a variant that records only the first position of every word
RECURSIVE RcPosToWordFirstOnly(_, _)
RcPosToWordFirstOnly(inv, m) ==
    IF Len(inv) = 0 THEN m
    ELSE RcPosToWordFirstOnly(Tail(inv),
             RcAssignAll(m, SubSeq(Head(inv).pos, 1, 1), Head(inv).tok))

\* for word, positions in inv.items(): for p in positions: pos_to_word[p] =
\* word
RECURSIVE RcPosToWord(_, _)
RcPosToWord(inv, m) ==
    IF Len(inv) = 0 THEN m
    ELSE RcPosToWord(Tail(inv), RcAssignAll(m, Head(inv).pos, Head(inv).tok))

RECURSIVE RcSetMax(_)
RcSetMax(S) ==
    LET x == CHOOSE y \in S : TRUE
    IN  IF S = {x} THEN x ELSE Max(x, RcSetMax(S \ {x}))

\* max_pos of extract and OLD: starts at 0, raised by every larger p
RcMaxPos0(m) == IF DOMAIN m = {} THEN 0 ELSE Max(0, RcSetMax(DOMAIN m))

RcOk(v) == [exc |-> "none", val |-> v]

RcRaise(e) == [exc |-> e, val |-> NULL]

\* extract_semantic_scholar.reconstruct_openalex_abstract
RcReconstructExtract(inv) ==
    LET m == RcPosToWord(inv, <<>>)
        slots == [i \in 1..(RcMaxPos0(m) + 1) |-> Get(m, i - 1, "")]
    IN  RcOk(StrStrip(Join(" ", slots)))

\* OLD/enrich_abstracts_batch.reconstruct_openalex_abstract
RcReconstructOld(inv) ==
    IF Len(inv) = 0 THEN RcOk(NULL) ELSE RcReconstructExtract(inv)

\* stage 2, oa_fetch_abstract_by_wid lines 137-142: idx[i] raises KeyError
\* for a position no word has, max() raises ValueError for no position
RcReconstructStage2(inv) ==
    LET idx == RcPosToWord(inv, <<>>)
    IN  IF Len(inv) = 0 THEN RcOk(NULL)
        ELSE IF DOMAIN idx = {} THEN RcRaise("ValueError")
        ELSE LET mx == RcSetMax(DOMAIN idx)
             IN  IF \E i \in 0..mx : i \notin DOMAIN idx
                 THEN RcRaise("KeyError")
                 ELSE RcOk(Join(" ", [i \in 1..(mx + 1) |-> idx[i - 1]]))

\* [t for t in tokens if t]
RECURSIVE RcTruthyOnly(_)
RcTruthyOnly(tokens) ==
    IF Len(tokens) = 0 THEN <<>>
    ELSE IF Truthy(Head(tokens))
         THEN <<Head(tokens)>> \o RcTruthyOnly(Tail(tokens))
         ELSE RcTruthyOnly(Tail(tokens))

\* import_openalex.reconstruct_openalex_abstract
RcReconstructImport(inv) ==
    LET pos2tok == RcPosToWord(inv, <<>>)
    IN  IF Len(inv) = 0 \/ DOMAIN pos2tok = {} THEN RcOk("")
        ELSE LET max_pos == RcSetMax(DOMAIN pos2tok)
                 tokens == [i \in 1..(max_pos + 1) |-> Get(pos2tok, i - 1, NULL)]
             IN  RcOk(Join(" ", RcTruthyOnly(tokens)))

RcInit ==
    /\ pfn \in RcImpls
    /\ ppc = "in"
    /\ pin \in RcTexts(RcMaxLen)
    /\ pmid = NULL
    /\ pout = NULL
    /\ RowPark
    /\ FetchPark
    /\ S1Park
    /\ ExPark
    /\ OldPark
    /\ RbPark
    /\ HttpPark
    /\ AiPark
    /\ EgPark
    /\ StPark

\* the source (OpenAlex) indexes the text
RcIndex ==
    /\ ppc = "in"
    /\ pmid' = RcForwardIndex(pin)
    /\ ppc' = "mid"
    /\ UNCHANGED <<pfn, pin, pout, notPureVars>>

RcExtract ==
    /\ ppc = "mid" /\ pfn = "extract"
    /\ pout' = RcReconstructExtract(pmid)
    /\ ppc' = "out"
    /\ UNCHANGED <<pfn, pin, pmid, notPureVars>>

RcOld ==
    /\ ppc = "mid" /\ pfn = "OLD"
    /\ pout' = RcReconstructOld(pmid)
    /\ ppc' = "out"
    /\ UNCHANGED <<pfn, pin, pmid, notPureVars>>

RcStage2 ==
    /\ ppc = "mid" /\ pfn = "stage2"
    /\ pout' = RcReconstructStage2(pmid)
    /\ ppc' = "out"
    /\ UNCHANGED <<pfn, pin, pmid, notPureVars>>

RcImport ==
    /\ ppc = "mid" /\ pfn = "import"
    /\ pout' = RcReconstructImport(pmid)
    /\ ppc' = "out"
    /\ UNCHANGED <<pfn, pin, pmid, notPureVars>>

RcNext == RcIndex \/ RcExtract \/ RcOld \/ RcStage2 \/ RcImport

RcSpec == RcInit /\ [][RcNext]_vars

(***************************************************************************)
(* arXiv id normalization applied twice: norm_arxiv of                     *)
(* stage_1_enrich_identifiers.py and clean_arxiv_id of                     *)
(* old working version/extract_source_for_testing.py.  Input strings are   *)
(* made of at most NaMaxTokens pieces.                                     *)
(***************************************************************************)
NaMaxTokens == 3

NaTokens == {"arXiv:", " ", "v", "v1", "1", "2403.1", "a/9", "9702026"}

NaCategories == {NULL, "hep-th"}

RECURSIVE NaStrings(_)
NaStrings(n) ==
    IF n = 0 THEN {""}
    ELSE LET shorter == NaStrings(n - 1)
         IN  shorter \cup {x \o t : x \in shorter, t \in NaTokens}

\* the number of digits at the end of s
RECURSIVE TrailingDigits(_)
TrailingDigits(s) ==
    IF Len(s) > 0 /\ IsDigit(CharAt(s, Len(s)))
    THEN 1 + TrailingDigits(SubSeq(s, 1, Len(s) - 1))
    ELSE 0

\* re.sub(r'v\d+$', '', s) for s without a newline at its end
SubVersion(s) ==
    LET k == TrailingDigits(s)
    IN  IF k > 0 /\ Len(s) > k /\ CharAt(s, Len(s) - k) = "v"
        THEN SubSeq(s, 1, Len(s) - k - 1)
        ELSE s

\* clean_arxiv_id(raw_id, category); NULL is None
clean_arxiv_id(raw_id, category) ==
    IF ~Truthy(raw_id) THEN NULL
    ELSE LET no_version == SubVersion(StrStrip(raw_id))
         IN  IF FirstPos(no_version, "/") # 0 THEN no_version
             ELSE IF FirstPos(no_version, ".") # 0 THEN no_version
             ELSE IF Truthy(category) /\ Len(no_version) = 7
                     /\ IsDigits(no_version)
                  THEN category \o "/" \o no_version
             ELSE NULL

NaInit ==
    /\ pfn \in {"norm_arxiv", "clean_arxiv_id"}
    /\ ppc = "in"
    /\ \E x \in NaStrings(NaMaxTokens),
          c \in (IF pfn = "norm_arxiv" THEN {NULL} ELSE NaCategories) :
        pin = [s |-> x, category |-> c]
    /\ pmid = NULL
    /\ pout = NULL
    /\ RowPark
    /\ FetchPark
    /\ S1Park
    /\ ExPark
    /\ OldPark
    /\ RbPark
    /\ HttpPark
    /\ AiPark
    /\ EgPark
    /\ StPark

NaNormArxiv ==
    /\ pfn = "norm_arxiv" /\ ppc = "in"
    /\ pmid' = norm_arxiv(pin.s)
    /\ ppc' = "mid"
    /\ UNCHANGED <<pfn, pin, pout, notPureVars>>

\* norm_arxiv applied to its own result
NaNormArxivAgain ==
    /\ pfn = "norm_arxiv" /\ ppc = "mid"
    /\ pout' = norm_arxiv(pmid)
    /\ ppc' = "out"
    /\ UNCHANGED <<pfn, pin, pmid, notPureVars>>

NaCleanArxivId ==
    /\ pfn = "clean_arxiv_id" /\ ppc = "in"
    /\ pmid' = clean_arxiv_id(pin.s, pin.category)
    /\ ppc' = "mid"
    /\ UNCHANGED <<pfn, pin, pout, notPureVars>>

\* clean_arxiv_id applied to its own result when that is not None
NaCleanArxivIdAgain ==
    /\ pfn = "clean_arxiv_id" /\ ppc = "mid"
    /\ pmid # NULL
    /\ pout' = clean_arxiv_id(pmid, pin.category)
    /\ ppc' = "out"
    /\ UNCHANGED <<pfn, pin, pmid, notPureVars>>

NaNext ==
    \/ NaNormArxiv
    \/ NaNormArxivAgain
    \/ NaCleanArxivId
    \/ NaCleanArxivIdAgain

NaSpec == NaInit /\ [][NaNext]_vars

(***************************************************************************)
(* DOI normalization: norm_doi of stage_1_enrich_identifiers.py (norm_doi  *)
(* above) and norm_doi of fetch_abstracts_s2_arxiv.py.  The input is a     *)
(* prefix followed by a body.                                              *)
(***************************************************************************)
NdPrefixes ==
    {"", "doi:", "DOI:", "http://doi.org/", "https://doi.org/",
     "http://dx.doi.org/", "https://dx.doi.org/", "HTTPS://DOI.ORG/"}

NdBodies ==
    {"10.1/x", "10.1/x y", "10.1/x\ty", "abc/def", "11.1/x", "10.1x", "x"}

\* s.strip(c) for one character c
RECURSIVE StripChar(_, _)
StripChar(s, c) ==
    IF Len(s) > 0 /\ CharAt(s, 1) = c THEN StripChar(Tail(s), c)
    ELSE IF Len(s) > 0 /\ CharAt(s, Len(s)) = c
    THEN StripChar(SubSeq(s, 1, Len(s) - 1), c)
    ELSE s

\* fetch_abstracts_s2_arxiv.py lines 31-35
FetchDoiPrefixes ==
    <<"https://doi.org/", "http://doi.org/", "https://dx.doi.org/",
      "http://dx.doi.org/", "doi:", "DOI:">>

\* lines 36-39: the first prefix that matches is cut off, then strip()
RECURSIVE FetchCutPrefix(_, _)
FetchCutPrefix(d, prefixes) ==
    IF Len(prefixes) = 0 THEN d
    ELSE IF StartsWith(Lower(d), Lower(Head(prefixes)))
    THEN StrStrip(DropFirst(d, Len(Head(prefixes))))
    ELSE FetchCutPrefix(d, Tail(prefixes))

\* norm_doi of fetch_abstracts_s2_arxiv.py; NULL is None
fetch_norm_doi(raw) ==
    IF ~Truthy(raw) THEN NULL
    ELSE LET doi0 == StripChar(StripChar(StrStrip(raw), "\""), "'")
             doi1 == FetchCutPrefix(doi0, FetchDoiPrefixes)
         IN  IF FirstPos(doi1, " ") # 0 \/ FirstPos(doi1, "/") = 0 THEN NULL
             ELSE doi1

NdInit ==
    /\ pfn \in {"s1.norm_doi", "fetch.norm_doi"}
    /\ ppc = "in"
    /\ \E p \in NdPrefixes, b \in NdBodies : pin = [prefix |-> p, body |-> b]
    /\ pmid = NULL
    /\ pout = NULL
    /\ RowPark
    /\ FetchPark
    /\ S1Park
    /\ ExPark
    /\ OldPark
    /\ RbPark
    /\ HttpPark
    /\ AiPark
    /\ EgPark
    /\ StPark

\* the caller reads the stored doi: r.get("doi") / row["doi"]
NdRead ==
    /\ ppc = "in"
    /\ pmid' = pin.prefix \o pin.body
    /\ ppc' = "mid"
    /\ UNCHANGED <<pfn, pin, pout, notPureVars>>

NdStage1 ==
    /\ pfn = "s1.norm_doi" /\ ppc = "mid"
    /\ pout' = norm_doi(pmid)
    /\ ppc' = "out"
    /\ UNCHANGED <<pfn, pin, pmid, notPureVars>>

NdFetch ==
    /\ pfn = "fetch.norm_doi" /\ ppc = "mid"
    /\ pout' = fetch_norm_doi(pmid)
    /\ ppc' = "out"
    /\ UNCHANGED <<pfn, pin, pmid, notPureVars>>

NdNext == NdRead \/ NdStage1 \/ NdFetch

NdSpec == NdInit /\ [][NdNext]_vars

(***************************************************************************)
(* detect_citation_columns of build_frontend_json.py and of                *)
(* Process_AI_Edges_v2.py.  The input is the citations table: whether it   *)
(* exists and the set of its column names.  No pair is <<>>.               *)
(***************************************************************************)
DcMaxCols == 3

DcColumnNames ==
    {"source", "target", "citing", "cited", "citingPaperId", "citedPaperId",
     "from_id", "to_id", "source_id", "target_id", "paperId", "weight"}

DcTables ==
    {[exists |-> TRUE, cols |-> c] :
        c \in {s \in SUBSET DcColumnNames : Cardinality(s) <= DcMaxCols}}
    \cup {[exists |-> FALSE, cols |-> {}]}

\* build_frontend_json.py lines 177-182
BuildCandidates ==
    <<<<"source", "target">>, <<"citingPaperId", "citedPaperId">>,
      <<"citing", "cited">>, <<"from_id", "to_id">>>>

\* Process_AI_Edges_v2.py lines 119-127
EdgesCandidates ==
    <<<<"source", "target">>, <<"citing", "cited">>,
      <<"citingPaperId", "citedPaperId">>, <<"from_id", "to_id">>,
      <<"paperId", "citedPaperId">>, <<"source_id", "target_id">>>>

\* for a, b in candidates: if a in cols and b in cols: return a, b
RECURSIVE FirstCandidate(_, _)
FirstCandidate(candidates, cols) ==
    IF Len(candidates) = 0 THEN <<>>
    ELSE IF Head(candidates)[1] \in cols /\ Head(candidates)[2] \in cols
    THEN Head(candidates)
    ELSE FirstCandidate(Tail(candidates), cols)

DcInit ==
    /\ pfn \in {"build_frontend_json", "Process_AI_Edges_v2"}
    /\ ppc = "in"
    /\ pin \in DcTables
    /\ pmid = NULL
    /\ pout = NULL
    /\ RowPark
    /\ FetchPark
    /\ S1Park
    /\ ExPark
    /\ OldPark
    /\ RbPark
    /\ HttpPark
    /\ AiPark
    /\ EgPark
    /\ StPark

\* PRAGMA table_info(citations): no rows for a table that does not exist;
\* Process_AI_Edges_v2 returns None before it for such a table
DcPragma ==
    /\ ppc = "in"
    /\ pmid' = IF pin.exists THEN pin.cols ELSE {}
    /\ ppc' = "mid"
    /\ UNCHANGED <<pfn, pin, pout, notPureVars>>

DcBuildFrontend ==
    /\ pfn = "build_frontend_json" /\ ppc = "mid"
    /\ pout' = FirstCandidate(BuildCandidates, pmid)
    /\ ppc' = "out"
    /\ UNCHANGED <<pfn, pin, pmid, notPureVars>>

DcProcessEdges ==
    /\ pfn = "Process_AI_Edges_v2" /\ ppc = "mid"
    /\ pout' = IF ~pin.exists THEN <<>>
               ELSE FirstCandidate(EdgesCandidates, pmid)
    /\ ppc' = "out"
    /\ UNCHANGED <<pfn, pin, pmid, notPureVars>>

DcNext == DcPragma \/ DcBuildFrontend \/ DcProcessEdges

DcSpec == DcInit /\ [][DcNext]_vars

(***************************************************************************)
(* process_ai_metadata.py: runs of process_ai over a papers table of one   *)
(* row (the loop treats every row alone), with the answers of the LLM      *)
(* chosen freely, and between the runs the selection of the enrichment     *)
(* passes (stage 0 discover, fetch_missing_ids, yield_missing_papers).     *)
(***************************************************************************)
AiMaxRuns == 2

AiAbstracts == {NULL, "", "  ", "Real abstract"}

AiTitles == {NULL, "T"}

\* the LLM's answer to build_ai_abstract: no client or an exception, or the
\* content of the first choice
AiAbstractAnswers ==
    {[ok |-> FALSE, content |-> ""],
     [ok |-> TRUE, content |-> ""],
     [ok |-> TRUE, content |-> "We study X."],
     [ok |-> TRUE, content |-> "AI abstract - We study X."],
     [ok |-> TRUE, content |-> "AI Abstract - We study X."]}

\* the answers to AI_category_one and summarize_text: failed or usable
AiAnswers == {"fail", "ok"}

\* build_ai_abstract, lines 147-195
build_ai_abstract(llm) ==
    IF ~llm.ok THEN ""
    ELSE LET txt == StrStrip(llm.content)
         IN  IF ~StartsWith(Lower(txt), "ai abstract -")
             THEN "AI abstract - " \o LStrip(txt)
             ELSE txt

\* AI_category_one, lines 100-132
AI_category_one(text, llm) ==
    IF ~Truthy(text) \/ llm = "fail" THEN <<"Unknown">> ELSE <<"Physics">>

\* summarize_text, lines 41-97
summarize_text(abstract, llm) ==
    IF ~Truthy(abstract) \/ llm = "fail" THEN "" ELSE "Summary"

\* x IS NULL OR TRIM(x) = ''
SqlBlank(x) == x = NULL \/ \A i \in 1..Len(x) : CharAt(x, i) = " "

\* the condition of only_unprocessed, lines 273-278
AiUnprocessed(r) ==
    \/ r.AI_field_list = NULL \/ r.AI_field_list = "[]"
    \/ SqlBlank(r.AI_summary)
    \/ (SqlBlank(r.abstract) /\ SqlBlank(r.AI_abstract))

\* x is None or str(x).strip() == ""
PyBlank(x) == x = NULL \/ StrStrip(x) = ""

\* json.loads of a stored AI_field_list
AiLoadFields(stored) ==
    IF stored = JsonDumps(<<"Physics">>) THEN <<"Physics">> ELSE <<"Unknown">>

\* lines 324-442: the loop body for row r, with the LLM's three answers;
\* the new row and what was called with what
AiBody(r, f, la, lc, ls) ==
    LET real_abs_missing == PyBlank(r.abstract)
        need_ai_abs ==
            real_abs_missing
            /\ (f.overwrite_ai_abstract \/ ~Truthy(r.AI_abstract)
                \/ StrStrip(r.AI_abstract) = "")
        generated_ai_abs == IF need_ai_abs THEN build_ai_abstract(la) ELSE NULL
        working_abstract == Or(generated_ai_abs, r.abstract)
        ai_abstract_to_store ==
            IF Truthy(generated_ai_abs) THEN generated_ai_abs ELSE r.AI_abstract
        need_ai_fields ==
            f.overwrite_ai_fields \/ ~Truthy(r.AI_field_list)
            \/ r.AI_field_list = "[]"
        AI_field_list ==
            IF need_ai_fields THEN AI_category_one(Or(working_abstract, ""), lc)
            ELSE AiLoadFields(r.AI_field_list)
        AI_primary_field ==
            IF need_ai_fields THEN AI_field_list[1]
            ELSE Or(r.AI_primary_field, AI_field_list[1])
        need_summary ==
            f.overwrite_summary \/ ~Truthy(r.AI_summary)
            \/ StrStrip(r.AI_summary) = ""
        call_summary ==
            need_summary /\ (Truthy(working_abstract) \/ Truthy(r.title))
        new_summary ==
            IF call_summary THEN summarize_text(Or(working_abstract, ""), ls)
            ELSE r.AI_summary
    IN  [row |-> [title |-> r.title,
                  abstract |-> working_abstract,
                  AI_field_list |-> JsonDumps(AI_field_list),
                  AI_primary_field |-> AI_primary_field,
                  AI_summary |-> new_summary,
                  AI_abstract |-> ai_abstract_to_store],
         log |-> [ran |-> TRUE,
                  before |-> r,
                  called_gen |-> need_ai_abs,
                  gen |-> generated_ai_abs,
                  cat_called |-> need_ai_fields,
                  cat_in |-> IF need_ai_fields THEN Or(working_abstract, "")
                             ELSE NULL,
                  sum_called |-> call_summary,
                  sum_in |-> IF call_summary THEN Or(working_abstract, "")
                             ELSE NULL]]

AiNoLog ==
    [ran |-> FALSE, before |-> <<>>, called_gen |-> FALSE, gen |-> NULL,
     cat_called |-> FALSE, cat_in |-> NULL, sum_called |-> FALSE,
     sum_in |-> NULL]

AiFlags ==
    [overwrite_ai_fields : BOOLEAN, overwrite_summary : BOOLEAN,
     overwrite_ai_abstract : BOOLEAN, only_unprocessed : BOOLEAN]

\* the papers row before the first run: ensure_ai_columns has added the four
\* AI columns, NULL in every row
AiInit ==
    /\ \E a \in AiAbstracts, t \in AiTitles :
        arow = [title |-> t, abstract |-> a, AI_field_list |-> NULL,
                AI_primary_field |-> NULL, AI_summary |-> NULL,
                AI_abstract |-> NULL]
    /\ apc = "idle"
    /\ aflags \in {f \in AiFlags : ~f.overwrite_ai_fields
                        /\ ~f.overwrite_summary /\ ~f.overwrite_ai_abstract
                        /\ f.only_unprocessed}
    /\ asel = FALSE
    /\ arun = 0
    /\ alog = AiNoLog
    /\ aneed = "unknown"
    /\ RowPark
    /\ FetchPark
    /\ S1Park
    /\ ExPark
    /\ OldPark
    /\ RbPark
    /\ HttpPark
    /\ PurePark
    /\ EgPark
    /\ StPark

\* main and lines 249-322: the flags of the command line, the query
AiStartRun ==
    /\ apc = "idle"
    /\ arun < AiMaxRuns
    /\ \E f \in AiFlags :
        /\ aflags' = f
        /\ asel' = (f.only_unprocessed => AiUnprocessed(arow))
    /\ arun' = arun + 1
    /\ apc' = "loop"
    /\ alog' = AiNoLog
    /\ aneed' = "unknown"
    /\ UNCHANGED <<arow, notAiVars>>

\* lines 324-462: one turn of the loop, UPDATE and commit included
AiProcessRow ==
    /\ apc = "loop" /\ asel
    /\ \E la \in AiAbstractAnswers, lc \in AiAnswers, ls \in AiAnswers :
        LET b == AiBody(arow, aflags, la, lc, ls)
        IN  /\ arow' = b.row
            /\ alog' = b.log
    /\ asel' = FALSE
    /\ UNCHANGED <<apc, aflags, arun, aneed, notAiVars>>

\* line 464: the loop is over
AiFinish ==
    /\ apc = "loop" /\ ~asel
    /\ apc' = "idle"
    /\ UNCHANGED <<arow, aflags, asel, arun, alog, aneed, notAiVars>>

\* WHERE abstract IS NULL OR abstract = '' of stage 0 discover, of
\* fetch_missing_ids and of yield_missing_papers
AbstractNeeded(r) == r.abstract = NULL \/ r.abstract = ""

\* an enrichment pass selects its rows
AiEnrichSelect ==
    /\ apc = "idle"
    /\ aneed = "unknown"
    /\ aneed' = IF AbstractNeeded(arow) THEN "selected" ELSE "not selected"
    /\ UNCHANGED <<arow, apc, aflags, asel, arun, alog, notAiVars>>

AiNext == AiStartRun \/ AiProcessRow \/ AiFinish \/ AiEnrichSelect

AiSpec == AiInit /\ [][AiNext]_vars

(***************************************************************************)
(* Export of nodes.json and edges.json.                                    *)
(*                                                                         *)
(* build_frontend_json.main builds the nodes that match the filters, the   *)
(* edges between them, optionally narrows both to the landmark papers and  *)
(* writes the two files; Process_AI_Edges_v2.main writes every node it     *)
(* categorised and the edges between them.  A paper is its paperId; the    *)
(* papers table maps it to cited_by_count (EgNullCount stands for SQL      *)
(* NULL) and to whether AI_field_list is already stored.  Identifier 0 is  *)
(* a work that has no row in papers.                                       *)
(***************************************************************************)
EgMaxRows == 2

EgNullCount == -1

EgPaperIds == {1, 2, 3}

EgCounts == {EgNullCount, 5, 20}

EgCitationRows ==
    {<<1, 2>>, <<2, 3>>, <<3, 1>>, <<1, 3>>, <<3, 0>>, <<0, 2>>}

EgScripts == {"build_frontend_json", "Process_AI_Edges_v2"}

EgFrontendOpts ==
    [min_citations : {0, 10}, top_n : {0, 2}, use_landmarks : BOOLEAN,
     landmark_count : {0, 1, 2}, overwrite_ai : {FALSE},
     only_unprocessed : {FALSE}]

EgProcessOpts ==
    [min_citations : {0}, top_n : {0}, use_landmarks : {FALSE},
     landmark_count : {1}, overwrite_ai : BOOLEAN,
     only_unprocessed : BOOLEAN]

\* WHERE cited_by_count >= ? of build_nodes: NULL never satisfies it.
SqlCountAtLeast(papers, p, m) ==
    papers[p].count # EgNullCount /\ papers[p].count >= m

\* ORDER BY cited_by_count DESC NULLS LAST LIMIT n: every result the
\* query can give (the order among equal counts is not specified).
EgTopN(papers, ids, n) ==
    IF Cardinality(ids) <= n THEN {ids}
    ELSE {S \in SUBSET ids :
            /\ Cardinality(S) = n
            /\ \A a \in S : \A b \in ids \ S :
                 papers[a].count >= papers[b].count}

\* build_nodes of build_frontend_json.py: the ids of the rows selected.
FrontendNodeSets(papers, opts) ==
    LET matching ==
            IF opts.min_citations > 0
            THEN {p \in DOMAIN papers :
                    SqlCountAtLeast(papers, p, opts.min_citations)}
            ELSE DOMAIN papers
        limit == IF opts.use_landmarks THEN 0 ELSE opts.top_n
    IN  IF limit > 0 THEN EgTopN(papers, matching, limit) ELSE {matching}

\* build_nodes of Process_AI_Edges_v2.py: the ids of the rows selected.
ProcessNodes(papers, opts) ==
    IF opts.only_unprocessed
    THEN {p \in DOMAIN papers : ~papers[p].categorised}
    ELSE DOMAIN papers

\* the row filter testing the source only
KeepRowSourceOnly(cit, pid_set) ==
    cit[1] \in pid_set

\* if src in pid_set and dst in pid_set
KeepRow(cit, pid_set) ==
    cit[1] \in pid_set /\ cit[2] \in pid_set

\* The citation rows both builders keep; none when no column pair is found.
KeptRows(db, pid_set) ==
    IF ~db.colpair THEN {}
    ELSE {cit \in db.citations : KeepRow(cit, pid_set)}

\* math.log1p(node['citationCount']) raises TypeError on None.
EdgeScoreRaises(db, rows) ==
    \E cit \in rows : \E i \in {1, 2} :
        /\ cit[i] \in DOMAIN db.papers
        /\ db.papers[cit[i]].count = EgNullCount

\* Landmark candidates: n['citationCount'] >= min_citations.
LandmarkCandidates(papers, nodes, m) ==
    {p \in nodes : papers[p].count >= m}

\* select_landmark_papers: every set of ids it can return.  The ranking
\* adds floating-point logarithms of counts and degrees to a sampled
\* betweenness, so any tier1_size of the candidates may come first.
select_landmark_papers(papers, nodes, tier1_size, m) ==
    LET candidates == LandmarkCandidates(papers, nodes, m)
    IN  IF Cardinality(candidates) <= tier1_size THEN {candidates}
        ELSE {S \in SUBSET candidates : Cardinality(S) = tier1_size}

\* The comparison with None, and selected[0] of an empty selection, raise.
LandmarksRaise(papers, nodes, tier1_size, m) ==
    \/ \E p \in nodes : papers[p].count = EgNullCount
    \/ /\ Cardinality(LandmarkCandidates(papers, nodes, m)) > tier1_size
       /\ tier1_size = 0

EgNoOutput ==
    [nodes_json |-> FALSE, nodes |-> {}, edges_json |-> FALSE, edges |-> {}]

EgInit ==
    /\ egscript \in EgScripts
    /\ \E cites \in SUBSET EgCitationRows : \E cp \in BOOLEAN :
         /\ Cardinality(cites) <= EgMaxRows
         /\ \E papers \in [EgPaperIds -> [count : EgCounts,
                                          categorised : BOOLEAN]] :
              /\ egscript = "build_frontend_json" =>
                     \A p \in EgPaperIds : ~papers[p].categorised
              /\ egscript = "Process_AI_Edges_v2" =>
                     \A p \in EgPaperIds : papers[p].count = 5
              /\ egdb = [papers |-> papers, citations |-> cites,
                         colpair |-> cp]
    /\ egopts \in (IF egscript = "build_frontend_json"
                   THEN EgFrontendOpts ELSE EgProcessOpts)
    /\ egpc = "start"
    /\ egnodes = {}
    /\ egedges = {}
    /\ egout = EgNoOutput
    /\ RowPark
    /\ FetchPark
    /\ S1Park
    /\ ExPark
    /\ OldPark
    /\ RbPark
    /\ HttpPark
    /\ PurePark
    /\ AiPark
    /\ StPark

\* build_frontend_json.main: all_nodes = build_nodes(...)
EgFrontendBuildNodes ==
    /\ egpc = "start"
    /\ egscript = "build_frontend_json"
    /\ egnodes' \in FrontendNodeSets(egdb.papers, egopts)
    /\ egpc' = "nodes"
    /\ UNCHANGED <<egscript, egdb, egopts, egedges, egout, notEgVars>>

\* Process_AI_Edges_v2.main: build_nodes stores the categories of the rows
\* it reads, and nodes.json is written before the edges are built.
EgProcessBuildNodes ==
    /\ egpc = "start"
    /\ egscript = "Process_AI_Edges_v2"
    /\ LET nodes == ProcessNodes(egdb.papers, egopts)
       IN  /\ egnodes' = nodes
           /\ egdb' = [egdb EXCEPT !.papers =
                  [p \in DOMAIN egdb.papers |->
                     IF p \in nodes
                     THEN [egdb.papers[p] EXCEPT !.categorised = TRUE]
                     ELSE egdb.papers[p]]]
           /\ egout' = [egout EXCEPT !.nodes_json = TRUE, !.nodes = nodes]
    /\ egpc' = "nodes"
    /\ UNCHANGED <<egscript, egopts, egedges, notEgVars>>

\* build_edges_enhanced
EgFrontendBuildEdges ==
    /\ egpc = "nodes"
    /\ egscript = "build_frontend_json"
    /\ LET rows == KeptRows(egdb, egnodes)
       IN  IF EdgeScoreRaises(egdb, rows)
           THEN egpc' = "raised" /\ UNCHANGED egedges
           ELSE egpc' = "edges" /\ egedges' = rows
    /\ UNCHANGED <<egscript, egdb, egopts, egnodes, egout, notEgVars>>

\* build_edges_from_citations, then edges.json is written.
EgProcessBuildEdges ==
    /\ egpc = "nodes"
    /\ egscript = "Process_AI_Edges_v2"
    /\ egedges' = KeptRows(egdb, egnodes)
    /\ egout' = [egout EXCEPT !.edges_json = TRUE, !.edges = egedges']
    /\ egpc' = "done"
    /\ UNCHANGED <<egscript, egdb, egopts, egnodes, notEgVars>>

\* if args.use_landmarks: narrow the nodes and the edges to the landmarks.
EgSelectLandmarks ==
    /\ egpc = "edges"
    /\ egopts.use_landmarks
    /\ LET m == IF egopts.min_citations # 0 THEN egopts.min_citations
                ELSE 10
       IN  IF LandmarksRaise(egdb.papers, egnodes, egopts.landmark_count, m)
           THEN egpc' = "raised" /\ UNCHANGED <<egnodes, egedges>>
           ELSE /\ egnodes' \in select_landmark_papers(egdb.papers, egnodes,
                                    egopts.landmark_count, m)
                /\ egedges' = {e \in egedges : KeepRow(e, egnodes')}
                /\ egpc' = "selected"
    /\ UNCHANGED <<egscript, egdb, egopts, egout, notEgVars>>

\* save_json(nodes, "nodes.json"); save_json(edges, "edges.json")
EgFrontendExport ==
    /\ \/ egpc = "selected"
       \/ egpc = "edges" /\ ~egopts.use_landmarks
    /\ egout' = [nodes_json |-> TRUE, nodes |-> egnodes,
                 edges_json |-> TRUE, edges |-> egedges]
    /\ egpc' = "done"
    /\ UNCHANGED <<egscript, egdb, egopts, egnodes, egedges, notEgVars>>

EgNext ==
    \/ EgFrontendBuildNodes
    \/ EgProcessBuildNodes
    \/ EgFrontendBuildEdges
    \/ EgProcessBuildEdges
    \/ EgSelectLandmarks
    \/ EgFrontendExport

EgSpec == EgInit /\ [][EgNext]_vars

(***************************************************************************)
(* stage_2_fetch_abstracts_from_s2.py, main: the three passes.             *)
(*                                                                         *)
(* The papers table maps paperId to a row.  The input identifier map is    *)
(* `work`: one record per line of the input file, in file order.  Pass 1   *)
(* asks Semantic Scholar in batches for the records that have an s2_id;    *)
(* the OpenAlex and arXiv passes take their ids from the table.            *)
(***************************************************************************)
StBatchSize == 2

StPaperIds == {"W1", "W2", "W3"}

StFileOrder == <<"W1", "W2", "W3">>

\* papers rows before the run
StRows ==
    [title : {NULL}, abstract : {NULL, "", "A0"}, year : {"2019"},
     publicationDate : {NULL}, cited_by_count : {NULL},
     arxivId : {NULL, "2401.00001"}]

\* the input file listing the papers of `listed`, those of `withS2` with
\* an s2_id
StWorkOf(listed, withS2) ==
    LET order == SelectSeq(StFileOrder, LAMBDA p : p \in listed)
    IN  [k \in 1..Len(order) |->
           [db_id |-> order[k],
            s2_id |-> IF order[k] \in withS2 THEN "s2-" \o order[k] ELSE NULL,
            arxiv |-> NULL]]

\* an element of the Semantic Scholar batch answer: null, or a paper
StS2Items ==
    {NoDict,
     [title |-> "T1", abstract |-> NULL, year |-> "2020",
      publicationDate |-> NULL, citationCount |-> "9"],
     [title |-> "T1", abstract |-> "A1", year |-> "2020",
      publicationDate |-> NULL, citationCount |-> "9"]}

\* oa_fetch_abstract_by_wid / arxiv_fetch_abstract: an exception, None or
\* the text
StOaAnswers == {"raise", NULL, "A2"}

StArxivAnswers == {"raise", NULL, "", "A3"}

\* s2_items = [(w["db_id"], w["s2_id"]) for w in work if w.get("s2_id")]
s2_items(work) == SelectSeq(work, LAMBDA w : Truthy(w.s2_id))

\* SELECT paperId FROM papers WHERE abstract IS NULL OR abstract=''
StLackAbstract(db) ==
    {p \in DOMAIN db : db[p].abstract = NULL \/ db[p].abstract = ""}

\* ... WHERE (abstract IS NULL OR abstract='') AND arxivId IS NOT NULL
StLackAbstractWithArxiv(db) ==
    {p \in StLackAbstract(db) : db[p].arxivId # NULL}

\* for (db_id, sid), item in zip(chunk, data): if item and update_row(...)
StApplyBatch(db, chunk, data) ==
    [p \in DOMAIN db |->
       IF \E k \in 1..Len(chunk) :
            chunk[k].db_id = p /\ TruthyDict(data[k])
       THEN LET k == CHOOSE k \in 1..Len(chunk) :
                         chunk[k].db_id = p /\ TruthyDict(data[k])
            IN  Stage2UpdateRow(db[p], data[k])
       ELSE db[p]]

\* try: abstract = fetch(...) except Exception: abstract = None;
\* if abstract: update_row(conn, db_id, {"abstract": abstract})
StApplyFallback(r, answer) ==
    LET abstract == IF answer = "raise" THEN NULL ELSE answer
    IN  IF Truthy(abstract) THEN Stage2UpdateRow(r, [abstract |-> abstract])
        ELSE r

StInit ==
    /\ stdb \in [StPaperIds -> StRows]
    /\ \E listed \in SUBSET StPaperIds : \E withS2 \in SUBSET listed :
         stwork = StWorkOf(listed, withS2)
    /\ stpc = "pass1"
    /\ sti = 0
    /\ stneed = {}
    /\ stdb0 = stdb
    /\ stlog = [pass |-> "none", db_id |-> "none"]
    /\ RowPark
    /\ FetchPark
    /\ S1Park
    /\ ExPark
    /\ OldPark
    /\ RbPark
    /\ HttpPark
    /\ PurePark
    /\ AiPark
    /\ EgPark

\* Pass 1, one turn of the batch loop: the request raises and the batch is
\* skipped, or the answer is zipped with the chunk.
StS2Batch ==
    /\ stpc = "pass1"
    /\ sti < Len(s2_items(stwork))
    /\ LET items == s2_items(stwork)
           chunk == SubSeq(items, sti + 1, Min(sti + StBatchSize, Len(items)))
       IN  \/ /\ UNCHANGED stdb
              /\ stlog' = [pass |-> "S2 failed", db_id |-> chunk[1].db_id]
           \/ \E data \in [1..Len(chunk) -> StS2Items] :
                /\ stdb' = StApplyBatch(stdb, chunk, data)
                /\ stlog' = [pass |-> "S2", db_id |-> chunk[1].db_id]
    /\ sti' = sti + StBatchSize
    /\ UNCHANGED <<stwork, stpc, stneed, stdb0, notStVars>>

\* Collect which still need abstracts
StCollectMissing ==
    /\ stpc = "pass1"
    /\ sti >= Len(s2_items(stwork))
    /\ stneed' = StLackAbstract(stdb)
    /\ stpc' = "pass2"
    /\ UNCHANGED <<stdb, stwork, sti, stdb0, stlog, notStVars>>

\* Pass 2, one turn of `for count, db_id in enumerate(list(need_more), 1)`
StOpenAlexFetch ==
    /\ stpc = "pass2"
    /\ \E p \in stneed : \E answer \in StOaAnswers :
         /\ stdb' = [stdb EXCEPT ![p] = StApplyFallback(stdb[p], answer)]
         /\ stneed' = stneed \ {p}
         /\ stlog' = [pass |-> "OpenAlex", db_id |-> p]
    /\ UNCHANGED <<stwork, stpc, sti, stdb0, notStVars>>

\* Recompute missing
StRecomputeMissing ==
    /\ stpc = "pass2"
    /\ stneed = {}
    /\ stneed' = StLackAbstractWithArxiv(stdb)
    /\ stpc' = "pass3"
    /\ UNCHANGED <<stdb, stwork, sti, stdb0, stlog, notStVars>>

\* Pass 3, one turn of `for count, (db_id, arx) in enumerate(...)`
StArxivFetch ==
    /\ stpc = "pass3"
    /\ \E p \in stneed : \E answer \in StArxivAnswers :
         /\ stdb' = [stdb EXCEPT ![p] = StApplyFallback(stdb[p], answer)]
         /\ stneed' = stneed \ {p}
         /\ stlog' = [pass |-> "arXiv", db_id |-> p]
    /\ UNCHANGED <<stwork, stpc, sti, stdb0, notStVars>>

\* raw_out.close() and the report
StFinish ==
    /\ stpc = "pass3"
    /\ stneed = {}
    /\ stpc' = "done"
    /\ UNCHANGED <<stdb, stwork, sti, stneed, stdb0, stlog, notStVars>>

StNext ==
    \/ StS2Batch
    \/ StCollectMissing
    \/ StOpenAlexFetch
    \/ StRecomputeMissing
    \/ StArxivFetch
    \/ StFinish

StSpec == StInit /\ [][StNext]_vars

(***************************************************************************)
(* C1.  update_row of stage 2 and of fetch_abstracts_s2_arxiv: an update   *)
(* that carries year 2020 together with a non-empty abstract leaves the    *)
(* year of a row whose year is 2019 at 2019 (and sets the year of a row    *)
(* whose year is NULL to 2020).                                            *)
(***************************************************************************)
C1_Step ==
    (call'.fn \in {"stage2", "fetch"} /\ call'.year = "2020"
        /\ Truthy(call'.abstract))
    => ((row.year = "2019" => row'.year = "2019")
        /\ (row.year = NULL => row'.year = "2020"))

C1_YearFillIfAbsent == [][C1_Step]_vars

(***************************************************************************)
(* C3.  update_row of extract_semantic_scholar and of enrich_abstracts_    *)
(* batch: over any sequence of calls, citationCount, year and              *)
(* publicationDate never change once non-NULL, authors and fieldsOfStudy   *)
(* never change once non-empty.                                            *)
(***************************************************************************)
C3_Step ==
    script \in {"extract", "old"} =>
        /\ (row.citationCount # NULL => row'.citationCount = row.citationCount)
        /\ (row.year # NULL => row'.year = row.year)
        /\ (row.publicationDate # NULL =>
                row'.publicationDate = row.publicationDate)
        /\ (Truthy(row.authors) => row'.authors = row.authors)
        /\ (Truthy(row.fieldsOfStudy) =>
                row'.fieldsOfStudy = row.fieldsOfStudy)

C3_FillIfAbsentMonotonic == [][C3_Step]_vars

\* a call that carried another year and other authors has acted on a row
\* that knew both, and an earlier call of the sequence had filled a field
C3_Witness ==
    /\ script = "extract"
    /\ call.fn = "extract"
    /\ call.year = "2020" /\ row.year = "2019"
    /\ call.authors = <<"y">> /\ row.authors = "[\"x\"]"
    /\ row.citationCount = "9"
    /\ row.abstract = "A1"

(***************************************************************************)
(* C5.  fetch_s2_by_doi terminates after a bounded number of requests      *)
(* whatever the server answers: every started call returns.                *)
(***************************************************************************)
C5_CallReturns == (fpc # "idle") ~> (fpc = "idle")

(***************************************************************************)
(* C6.  The 429 counter persists across fetch_s2_by_doi calls; the 429     *)
(* that brings it to 5 makes the fetcher sleep the long cooldown (180 s)   *)
(* before the next request, which is paced by the slowed delay (6.0 s),    *)
(* and leaves the counter at zero; any 200 answer resets the counter.      *)
(***************************************************************************)
C6_Step ==
    /\ (fpc = "idle" => consecutive_429' = consecutive_429)
    /\ (fpc = "await" /\ resp' = "429" /\ consecutive_429 = CooldownAfter - 1
          => /\ slept' = CooldownSleep
             /\ global_delay' = CooldownDelay
             /\ consecutive_429' = 0
             /\ fpc' = "loop")
    /\ (fpc = "await" /\ resp' = "429" /\ consecutive_429 < CooldownAfter - 1
          => slept' = 0 /\ consecutive_429' = consecutive_429 + 1)
    /\ (fpc = "loop" => slept' = global_delay /\ fpc' = "await")
    /\ (fpc = "await" /\ resp' = "200" => consecutive_429' = 0)

C6_CooldownAcrossCalls == [][C6_Step]_vars

\* the cooldown has just been taken on 429s counted over calls for two DOIs
C6_Witness ==
    /\ resp = "429"
    /\ slept = CooldownSleep
    /\ global_delay = CooldownDelay
    /\ consecutive_429 = 0
    /\ since \in Dois /\ doi \in Dois /\ since # doi

(***************************************************************************)
(* C2.  Stage 1: doi and arxivId are fill-if-absent; a row that has a      *)
(* non-empty doi (or arxivId) keeps it whatever Semantic Scholar answers.  *)
(***************************************************************************)
C2_Step ==
    \A i \in 1..S1NumRows :
        /\ (Truthy(s1db[i].doi) => s1db'[i].doi = s1db[i].doi)
        /\ (Truthy(s1db[i].arxivId) => s1db'[i].arxivId = s1db[i].arxivId)

C2_IdentifiersFillIfAbsent == [][C2_Step]_vars

(***************************************************************************)
(* C4.  extract_semantic_scholar.py run twice over one table with sources  *)
(* that answer the same both times: the second run yields no row from      *)
(* yield_missing_papers and calls update_row zero times.                   *)
(***************************************************************************)
C4_SecondRunUpdatesNothing == exrun = 2 => (exn = 0 /\ exupd = 0)

(***************************************************************************)
(* C7.  OLD/enrich_abstracts_batch.py: the abstract a row holds is the one *)
(* it had before the run or the one a source returned for the paper of     *)
(* that row, whatever the length and the order of the sources' answers.    *)
(***************************************************************************)
C7_AbstractsAligned ==
    opc # "off" =>
        \A i \in OldRowIds :
            odb[i].abstract \in {NULL, "", "A0", OldS2Abstract[i], OldOaAbstract[i]}

(***************************************************************************)
(* C8.  OLD/enrich_abstracts_batch.py: a batch request that fails does not *)
(* abort the run; when the run is over, main has reached its last line and *)
(* every item fetched with an abstract has been written to the store.      *)
(***************************************************************************)
C8_BatchFailureAbsorbed ==
    opc \in {"done", "aborted"} =>
        /\ opc = "done"
        /\ \A j \in 1..Len(oout) :
              Truthy(Get(oout[j].item, "abstract", NULL)) =>
                  Truthy(odb[OldRowOf[oout[j].key]].abstract)

(***************************************************************************)
(* C9.  OLD/enrich_abstracts_batch.main: every selected row is in exactly  *)
(* one of oa_pids, s2_hex and unknown, and every selected row has been     *)
(* sent to a source when the run is complete.                              *)
(***************************************************************************)
C9_EveryPartitionRouted ==
    opc = "done" =>
        \A j \in 1..Len(omissing) :
            LET i == omissing[j]
            IN  /\ \/ InSeq(i, opart.oa_pids) /\ ~InSeq(i, opart.s2_hex)
                                              /\ ~InSeq(i, opart.unknown)
                   \/ ~InSeq(i, opart.oa_pids) /\ InSeq(i, opart.s2_hex)
                                               /\ ~InSeq(i, opart.unknown)
                   \/ ~InSeq(i, opart.oa_pids) /\ ~InSeq(i, opart.s2_hex)
                                               /\ InSeq(i, opart.unknown)
                /\ InSeq(i, oquery)

\* the first half of C9 alone: the three lists partition `missing`
C9_PartitionExact ==
    opc \notin {"off", "start"} =>
        \A j \in 1..Len(omissing) :
            LET i == omissing[j]
                n == (IF InSeq(i, opart.oa_pids) THEN 1 ELSE 0)
                     + (IF InSeq(i, opart.s2_hex) THEN 1 ELSE 0)
                     + (IF InSeq(i, opart.unknown) THEN 1 ELSE 0)
            IN  omissing = <<>> \/ n = 1

(***************************************************************************)
(* C10.  rebuild_citations without --reset, over runs that may be          *)
(* interrupted anywhere: a paper that is a source in the committed         *)
(* citations table is in no HTTP request of a later step, no row with that *)
(* source is inserted, and the committed rows of that source stay as they  *)
(* are.                                                                    *)
(***************************************************************************)
RbRowsOf(rows, p) == {j \in 1..Len(rows) : rows[j][1] = p}

C10_Step ==
    \A p \in {RbWId[u] : u \in RbUrls} :
        RbRowsOf(rcit, p) # {} =>
            /\ p \notin rreq'
            /\ RbRowsOf(rtxn', p) = {}
            /\ RbRowsOf(rcit', p) = RbRowsOf(rcit, p)

C10_ResumeSkipsDoneSources == [][C10_Step]_vars

\* a run resumed after an interruption fetches a batch while the committed
\* table already holds sources, among them one of the papers of the table
C10_Witness ==
    /\ rlast = "interrupted"
    /\ rrun >= 2
    /\ rreq # {}
    /\ \E j \in 1..Len(rcit) : InSeq(rcit[j][1], RbPapers)
    /\ rpc = "rows"
    /\ rresults # <<>>

(***************************************************************************)
(* C11.  rebuild_citations, interrupted anywhere: the committed citations  *)
(* table holds for every paper either none of its reference edges or all   *)
(* the edges fetched for it, in order, and no HTTP request is made while   *)
(* rows inserted by executemany are uncommitted.                           *)
(***************************************************************************)
RECURSIVE RbCommittedOf(_, _)
RbCommittedOf(rows, p) ==
    IF rows = <<>> THEN <<>>
    ELSE (IF Head(rows)[1] = p THEN <<Head(rows)>> ELSE <<>>)
         \o RbCommittedOf(Tail(rows), p)

C11_CommittedAllOrNone ==
    rpc # "off" =>
        /\ \A j \in 1..Len(RbPapers) :
              LET p == RbPapers[j]
              IN  RbCommittedOf(rcit, p) \in {<<>>, RbItemRows(RbWork(p, "refs"))}
        /\ rtxn # <<>> => (rreq = {} /\ rpc = "commit")

\* a resumed run holds the uncommitted edges of a paper with two references
\* while the table already has committed rows: interrupt and commit are
\* both possible next
C11_Witness ==
    /\ rpc = "commit"
    /\ rlast = "interrupted"
    /\ rcit # <<>>
    /\ Len(RbCommittedOf(rtxn, "W1")) = 2

(***************************************************************************)
(* C12.  enrich_one on a row with an OpenAlex id: the sources are asked in *)
(* the order OpenAlex, Semantic Scholar by DOI, Semantic Scholar by arXiv  *)
(* id, each at most once; a source is asked only if no source asked before *)
(* it yielded an abstract; and when a source yielded an abstract the row   *)
(* is written once, from the first source that did.                        *)
(***************************************************************************)
ExYielded(k) ==
    /\ exans[k].status = "data"
    /\ Truthy(exans[k].ids.abstract) \/ Truthy(Get(exans[k].meta, "abstract", NULL))

ExTagOf(k) ==
    IF k = ExDoiKey THEN "DOI" ELSE IF k = ExArxivKey THEN "arXiv" ELSE "oa"

C12_FallbackOrder ==
    (expc # "off" /\ exlog.rowid # 0 /\ ExKind[exlog.rowid] = "openalex") =>
        LET i == exlog.rowid
            asked == exlog.asked
            yielding == {j \in 1..Len(asked) : ExYielded(asked[j])}
        IN  /\ asked \in {<<ExOaKey[i]>>, <<ExOaKey[i], ExDoiKey>>,
                          <<ExOaKey[i], ExArxivKey>>,
                          <<ExOaKey[i], ExDoiKey, ExArxivKey>>}
            /\ \A j \in yielding : j = Len(asked)
            /\ yielding # {} =>
                  exlog.writes = <<ExTagOf(asked[CHOOSE j \in yielding :
                                        \A k \in yielding : j <= k])>>

(***************************************************************************)
(* C13.  safe_request sends at most max_retries requests; an answer whose  *)
(* status is not 2xx, not 429 and not 5xx ends the call at once with an    *)
(* error and without a sleep; and a call whose max_retries requests were   *)
(* all answered 429 or 5xx ends with the terminal error, never with a      *)
(* response.                                                               *)
(***************************************************************************)
SrRetryable(st) == st = 429 \/ (500 <= st /\ st < 600)

SrOtherNon2xx(st) == st # 0 /\ ~(200 <= st /\ st < 300) /\ ~SrRetryable(st)

C13_SafeRequestBudget ==
    hfn = "safe_request" =>
        /\ hsent <= MAX_RETRIES
        /\ SrOtherNon2xx(hresp.status) =>
              (hpc = "done" /\ hresult = "HTTPError: status" /\ hwait = 0
               /\ hsleeps = hsent - 1)
        /\ hresult = "HTTPError: giving up" => hsent = MAX_RETRIES
        /\ (hsent = MAX_RETRIES /\ SrRetryable(hresp.status)) =>
              (hpc = "done" /\ hresult = "HTTPError: giving up")

(***************************************************************************)
(* C14.  safe_request: a timeout or connection failure of the outbound     *)
(* call is retried like a 5xx answer while attempts remain; such an        *)
(* exception leaves safe_request only when the attempts are used up.       *)
(***************************************************************************)
C14_TimeoutIsRetried ==
    (hfn = "safe_request" /\ hresult = "RequestException") =>
        (hsent = MAX_RETRIES /\ hsleeps = MAX_RETRIES - 1)

(***************************************************************************)
(* C15.  The urllib fetchers of stage 1, stage 2 and import_openalex: an   *)
(* answer with a 5xx status is followed by a backoff sleep and another     *)
(* attempt while attempts remain, and an answer with a non-2xx status      *)
(* other than 429 and 5xx ends the call at once with an error and without  *)
(* a sleep.                                                                *)
(***************************************************************************)
C15_Every5xxRetried ==
    (hfn \in HgFns /\ hsent > 0) =>
        /\ (SrRetryable(hresp.status) /\ hresp.status # 429
                /\ hsent < HgMaxRetries(hfn))
              => (hpc = "loop" /\ hwait > 0 /\ hsleeps = hsent)
        /\ SrOtherNon2xx(hresp.status)
              => (hpc = "done" /\ hresult = "RuntimeError" /\ hsent = 1)

\* C15 without the statuses outside the tuple (429,500,502,503) and without
\* a Retry-After header that float() rejects
C15_TupleCodesRetried ==
    (hfn \in HgFns /\ hsent > 0 /\ hresp.status \in {500, 502, 503}
        /\ hsent < HgMaxRetries(hfn) /\ hresult # "ValueError")
        => (hpc = "loop" /\ hwait > 0)

(***************************************************************************)
(* C16.  safe_request and the urllib fetchers: a 429 whose Retry-After     *)
(* header is present but not a number, with attempts remaining, is         *)
(* followed by a sleep of the computed backoff delay of that attempt and   *)
(* by another attempt.                                                     *)
(***************************************************************************)
C16_BudgetOf(fn) == IF fn = "safe_request" THEN MAX_RETRIES ELSE HgMaxRetries(fn)

C16_ComputedDelay(fn, sent) ==
    IF fn = "safe_request" THEN jbackoff(sent - 1) ELSE HgBackoff(fn, sent)

C16_NonNumericRetryAfter ==
    /\ hresp.status = 429
    /\ Truthy(hresp.ra)
    /\ ~RetryAfterNumeric(hresp.ra)
    /\ hsent < C16_BudgetOf(hfn)

C16_NonNumericFallsBack ==
    (hfn \in HgFns \cup {"safe_request"} /\ C16_NonNumericRetryAfter) =>
        /\ hpc = "loop"
        /\ hsleeps = hsent
        /\ hwait = C16_ComputedDelay(hfn, hsent)

\* C16 for safe_request alone
C16_SafeRequestFallsBack ==
    (hfn = "safe_request" /\ C16_NonNumericRetryAfter) =>
        /\ hpc = "loop"
        /\ hsleeps = hsent
        /\ hwait = jbackoff(hsent - 1)

C16_SafeRequestWitness ==
    /\ hfn = "safe_request"
    /\ C16_NonNumericRetryAfter
    /\ hsent = 3

(***************************************************************************)
(* C17.  safe_request and the urllib fetchers: the computed backoff delay  *)
(* (jbackoff without its jitter, base_sleep * attempt) does not decrease   *)
(* from one attempt to the next, and every computed delay that is slept    *)
(* is at most a cap that the script configures.  The time values a script  *)
(* configures are its base delay and its request timeout.                  *)
(***************************************************************************)
C17_ConfiguredTimes(fn) ==
    IF fn = "safe_request" THEN {BASE_DELAY_MS, REQ_TIMEOUT_MS}
    ELSE {HgBaseSleep(fn), REQ_TIMEOUT_MS}

\* the last sleep was a computed backoff delay
C17_ComputedSleep ==
    /\ hfn \in HgFns \cup {"safe_request"}
    /\ hsent > 0
    /\ hsleeps = hsent
    /\ hwait = C16_ComputedDelay(hfn, hsent)

C17_NonDecreasing ==
    C17_ComputedSleep =>
        /\ C16_ComputedDelay(hfn, hsent + 1) >= hwait
        /\ hsent > 1 => hwait >= C16_ComputedDelay(hfn, hsent - 1)

C17_BackoffMonotoneCapped ==
    C17_ComputedSleep =>
        /\ C16_ComputedDelay(hfn, hsent + 1) >= hwait
        /\ hsent > 1 => hwait >= C16_ComputedDelay(hfn, hsent - 1)
        /\ \E cap \in C17_ConfiguredTimes(hfn) : hwait <= cap

\* the delay is bounded by its value at the last attempt that is retried
C17_BoundedByBudget ==
    C17_ComputedSleep =>
        hwait <= (IF hfn = "safe_request" THEN jbackoff(MAX_RETRIES - 1)
                  ELSE HgBackoff(hfn, HgMaxRetries(hfn) - 1))

C17_LastDelayWitness ==
    /\ C17_ComputedSleep
    /\ hfn = "safe_request"
    /\ hwait = jbackoff(MAX_RETRIES - 1)

(***************************************************************************)
(* C18.  Reconstruction from an index that leaves out a position below its *)
(* largest one: every implementation returns, without an exception, the    *)
(* tokens of positions 0..max with an empty token at each missing          *)
(* position, joined by single spaces and stripped.                         *)
(***************************************************************************)
\* the text up to its last word
RECURSIVE RcUpToLastWord(_)
RcUpToLastWord(ws) ==
    IF Len(ws) = 0 \/ Last(ws) # RcGap THEN ws ELSE RcUpToLastWord(ButLast(ws))

RcHasGap(ws) == InSeq(RcGap, RcUpToLastWord(ws))

RcSlotsOf(ws) ==
    [i \in 1..Len(RcUpToLastWord(ws)) |-> IF ws[i] = RcGap THEN "" ELSE ws[i]]

C18_ReconstructionToleratesGaps ==
    (ppc = "out" /\ RcHasGap(pin)) =>
        /\ pout.exc = "none"
        /\ pout.val = StrStrip(Join(" ", RcSlotsOf(pin)))

\* C18 for extract_semantic_scholar and OLD/enrich_abstracts_batch alone
C18_GetWithDefaultToleratesGaps ==
    (ppc = "out" /\ RcHasGap(pin) /\ pfn \in {"extract", "OLD"}) =>
        /\ pout.exc = "none"
        /\ pout.val = StrStrip(Join(" ", RcSlotsOf(pin)))

C18_GapWitness ==
    /\ ppc = "out" /\ pfn = "extract"
    /\ pin = <<"a", RcGap, "b">>
    /\ pout = RcOk("a  b")

(***************************************************************************)
(* C19.  Reconstruction after forward indexing: for a text of one or more  *)
(* non-empty words without whitespace, every one of the four               *)
(* implementations returns the words in their order, joined by single      *)
(* spaces.                                                                 *)
(***************************************************************************)
RcDense(ws) == Len(ws) > 0 /\ ~InSeq(RcGap, ws)

C20_ArxivNormalizationIdempotent ==
    (pfn \in {"norm_arxiv", "clean_arxiv_id"} /\ ppc = "out") => pout = pmid

\* the second half of C20 alone
C20_CleanArxivIdIdempotent ==
    (pfn = "clean_arxiv_id" /\ ppc = "out") => pout = pmid

(***************************************************************************)
(* C21.  norm_doi of stage 1 and of fetch_abstracts_s2_arxiv: a DOI body   *)
(* under any accepted prefix (doi:, http://doi.org/, https://doi.org/,     *)
(* http://dx.doi.org/, https://dx.doi.org/, in any case) normalizes to the *)
(* body, so to the same result under every accepted prefix.                *)
(***************************************************************************)
NdAccepted == NdPrefixes \ {""}

NdDoiLike(b) ==
    /\ StartsWith(b, "10.")
    /\ FirstPos(b, "/") # 0
    /\ \A i \in 1..Len(b) : ~IsSpace(CharAt(b, i))

C21_SameResultUnderEveryPrefix ==
    (pfn \in {"s1.norm_doi", "fetch.norm_doi"} /\ ppc = "out"
        /\ pin.prefix \in NdAccepted /\ NdDoiLike(pin.body))
        => pout = pin.body

\* C21 for fetch_abstracts_s2_arxiv alone
C21_FetchSameResult ==
    (pfn = "fetch.norm_doi" /\ ppc = "out"
        /\ pin.prefix \in NdAccepted /\ NdDoiLike(pin.body))
        => pout = pin.body

C21_FetchWitness ==
    /\ pfn = "fetch.norm_doi" /\ ppc = "out"
    /\ pin = [prefix |-> "http://dx.doi.org/", body |-> "10.1/x"]
    /\ pout = "10.1/x"

(***************************************************************************)
(* C22.  norm_doi of stage 1 and of fetch_abstracts_s2_arxiv: when what    *)
(* remains after the prefix does not start with "10." or contains          *)
(* whitespace, the result is the unrecognized one ("" in stage 1, None in  *)
(* fetch_abstracts_s2_arxiv).                                              *)
(***************************************************************************)
NdHasSpace(b) == \E i \in 1..Len(b) : IsSpace(CharAt(b, i))

NdUnrecognized(fn) == IF fn = "s1.norm_doi" THEN "" ELSE NULL

C22_RejectsNonDoi ==
    (pfn \in {"s1.norm_doi", "fetch.norm_doi"} /\ ppc = "out"
        /\ (~StartsWith(pin.body, "10.") \/ NdHasSpace(pin.body)))
        => pout = NdUnrecognized(pfn)

\* what each implementation does reject: stage 1 a remainder that does not
\* start with "10.", fetch_abstracts_s2_arxiv one with " " or without "/"
C22_RejectedByEach ==
    /\ (pfn = "s1.norm_doi" /\ ppc = "out" /\ ~StartsWith(pin.body, "10."))
          => pout = ""
    /\ (pfn = "fetch.norm_doi" /\ ppc = "out"
          /\ (FirstPos(pin.body, " ") # 0 \/ FirstPos(pin.body, "/") = 0))
          => pout = NULL

(***************************************************************************)
(* C23.  detect_citation_columns of build_frontend_json and of             *)
(* Process_AI_Edges_v2: for a citations table with exactly one of the      *)
(* accepted pairs (source/target, citing/cited, citingPaperId/             *)
(* citedPaperId, from_id/to_id, source_id/target_id) the result is that    *)
(* pair, and the result is no pair only when the table has none of them.   *)
(***************************************************************************)
DcAccepted ==
    {<<"source", "target">>, <<"citing", "cited">>,
     <<"citingPaperId", "citedPaperId">>, <<"from_id", "to_id">>,
     <<"source_id", "target_id">>}

DcPresent(t) == {p \in DcAccepted : t.exists /\ p[1] \in t.cols /\ p[2] \in t.cols}

C23_DetectsThePairPresent ==
    (pfn \in {"build_frontend_json", "Process_AI_Edges_v2"} /\ ppc = "out") =>
        /\ \A p \in DcAccepted : DcPresent(pin) = {p} => pout = p
        /\ pout = <<>> => DcPresent(pin) = {}

\* C23 for Process_AI_Edges_v2 alone
C23_ProcessEdgesDetects ==
    (pfn = "Process_AI_Edges_v2" /\ ppc = "out") =>
        /\ \A p \in DcAccepted : DcPresent(pin) = {p} => pout = p
        /\ pout = <<>> => DcPresent(pin) = {}

\* the spec's example in build_frontend_json
C23_BuildFrontendWitness ==
    /\ pfn = "build_frontend_json" /\ ppc = "out"
    /\ pin.cols = {"citingPaperId", "citedPaperId", "weight"}
    /\ pout = <<"citingPaperId", "citedPaperId">>

(***************************************************************************)
(* C24.  process_ai, for every row it has processed: build_ai_abstract was *)
(* called only if the row's abstract was NULL or blank; when it returned a *)
(* text, that text starts with "AI abstract - ", is the row's abstract and *)
(* the row's AI_abstract, and is what the categories and the summary of    *)
(* the row were computed from; a row whose abstract was not blank has the  *)
(* same abstract afterwards.                                               *)
(***************************************************************************)
C24_AiAbstractOnlyForMissing ==
    alog.ran =>
        /\ alog.called_gen => PyBlank(alog.before.abstract)
        /\ Truthy(alog.gen) =>
              /\ StartsWith(alog.gen, "AI abstract - ")
              /\ arow.abstract = alog.gen
              /\ arow.AI_abstract = alog.gen
              /\ alog.cat_in = alog.gen
              /\ alog.sum_in = alog.gen
        /\ ~PyBlank(alog.before.abstract) =>
              arow.abstract = alog.before.abstract

\* C24 without the prefix and without the categories and the summary
C24_FrameOfAbstract ==
    alog.ran =>
        /\ alog.called_gen => PyBlank(alog.before.abstract)
        /\ Truthy(alog.gen) =>
              /\ arow.abstract = alog.gen
              /\ arow.AI_abstract = alog.gen
        /\ ~PyBlank(alog.before.abstract) =>
              arow.abstract = alog.before.abstract

\* a generated text whose prefix differs in case from "AI abstract - "
C24_PrefixWitness ==
    /\ alog.ran /\ Truthy(alog.gen)
    /\ ~StartsWith(alog.gen, "AI abstract - ")

\* a generated text that the stored categories were not computed from
C24_CategoriesWitness ==
    /\ alog.ran /\ Truthy(alog.gen)
    /\ StartsWith(alog.gen, "AI abstract - ")
    /\ ~alog.cat_called
    /\ ~aflags.overwrite_ai_fields

(***************************************************************************)
(* C25.  process_ai with --overwrite-ai-abstract 1: for every row it has   *)
(* processed that has no real abstract (its abstract is NULL or blank, or  *)
(* is the AI abstract an earlier run stored in abstract and AI_abstract),  *)
(* build_ai_abstract is called again.                                      *)
(***************************************************************************)
AiPlaceholder(r) == Truthy(r.AI_abstract) /\ r.abstract = r.AI_abstract

AiNoRealAbstract(r) == PyBlank(r.abstract) \/ AiPlaceholder(r)

C25_OverwriteRegenerates ==
    (alog.ran /\ aflags.overwrite_ai_abstract /\ AiNoRealAbstract(alog.before))
        => alog.called_gen

\* C25 for a row whose abstract column is NULL or blank
C25_OverwriteRegeneratesBlank ==
    (alog.ran /\ aflags.overwrite_ai_abstract /\ PyBlank(alog.before.abstract))
        => alog.called_gen

\* an AI abstract is stored in AI_abstract while abstract stays blank: never
C25_StoredOnlyWithAbstract ==
    Truthy(arow.AI_abstract) => arow.abstract = arow.AI_abstract

(***************************************************************************)
(* C29.  A row whose abstract column holds the AI abstract that process_ai *)
(* wrote is selected by the need predicate of the enrichment passes        *)
(* (stage 0 discover, fetch_missing_ids, yield_missing_papers).            *)
(***************************************************************************)
C29_PlaceholderStillNeeded ==
    (aneed # "unknown" /\ AiPlaceholder(arow)) => aneed = "selected"

\* the need predicate selects exactly the rows with abstract NULL or ''
C29_NeedIsNullOrEmpty ==
    aneed # "unknown" => (aneed = "selected" <=> arow.abstract \in {NULL, ""})

(***************************************************************************)
(* C26.  Every exported edge has both its source and its target among the  *)
(* ids of the exported nodes: once edges.json is written by either script, *)
(* each of its edges joins two nodes of the nodes.json written by the same *)
(* run, with and without --use-landmarks.                                  *)
(***************************************************************************)
C26_ExportedEdgesJoinExportedNodes ==
    egout.edges_json =>
        /\ egout.nodes_json
        /\ \A e \in egout.edges :
             e[1] \in egout.nodes /\ e[2] \in egout.nodes

\* C26, the landmark case: with --use-landmarks the exported nodes are
\* landmark candidates and every exported edge is a citation row between
\* two of them.
C26_LandmarkEdgesJoinLandmarks ==
    (egpc = "done" /\ egopts.use_landmarks) =>
        /\ Cardinality(egout.nodes) <= egopts.landmark_count
        /\ egout.edges \subseteq
               (egdb.citations \cap (egout.nodes \X egout.nodes))

\* A run of either script that exported an edge and dropped a citation row
\* one of whose ends is not a node.
C26_DroppedRowWitness ==
    /\ egpc = "done"
    /\ egout.edges # {}
    /\ \E c \in egdb.citations :
         c \notin egout.edges /\ (c[1] = 0 \/ c[2] = 0)

\* A landmark run that exported an edge between two landmarks and dropped
\* an edge of a node that is not a landmark.
C26_LandmarkWitness ==
    /\ egpc = "done"
    /\ egopts.use_landmarks
    /\ egout.edges # {}
    /\ \E c \in egdb.citations \ egout.edges :
         c[1] \in EgPaperIds /\ c[2] \in EgPaperIds

(***************************************************************************)
(* C27.  enrich_one of extract_semantic_scholar overwrites the stored      *)
(* references and citedBy of a row only on a successful enrichment: a call *)
(* that found nothing for the row (its only write is the "(none)" one)     *)
(* leaves the row's references, citedBy and abstract as they were.         *)
(***************************************************************************)
C27_NothingFound ==
    /\ exlog'.rowid # 0
    /\ exlog'.asked # <<>>
    /\ exlog'.writes = <<"(none)">>

C27_Step ==
    (expc = "run" /\ expos' # expos /\ C27_NothingFound) =>
        LET i == exlog'.rowid
        IN  /\ exdb'[i].references = exdb[i].references
            /\ exdb'[i].citedBy = exdb[i].citedBy
            /\ exdb'[i].abstract = exdb[i].abstract

C27_NotFoundLeavesRowUnchanged == [][C27_Step]_vars

\* C27, the part that holds: a call all of whose requests raised makes no
\* write, and the row is left as it was.
C27_RaiseStep ==
    (expc = "run" /\ expos' # expos /\ exlog'.writes = <<>>) =>
        exdb'[exlog'.rowid] = exdb[exlog'.rowid]

C27_RaiseLeavesRowUnchanged == [][C27_RaiseStep]_vars

\* C27, what the code does when nothing is found: the stored lists are
\* replaced by '[]' and the abstract by ''.
C27_NotFoundStep ==
    (expc = "run" /\ expos' # expos /\ C27_NothingFound) =>
        LET i == exlog'.rowid
        IN  /\ exdb'[i].references = "[]"
            /\ exdb'[i].citedBy = "[]"
            /\ exdb'[i].abstract = ""

C27_NotFoundClearsRow == [][C27_NotFoundStep]_vars

StListed == {stwork[k].db_id : k \in 1..Len(stwork)}

(***************************************************************************)
(* C28.  Stage 2 modifies only rows whose db_id appears in its input       *)
(* identifier map: in every pass (Semantic Scholar, OpenAlex, arXiv) a     *)
(* paper row that is not listed in the input file is left as it was.       *)
(***************************************************************************)
C28_Step ==
    \A p \in StPaperIds \ StListed : stdb'[p] = stdb[p]

C28_OnlyListedRowsModified == [][C28_Step]_vars

\* C28, the pass that keeps to the input file: a Semantic Scholar batch
\* writes only rows listed in the input file with an s2_id.
C28_Pass1Step ==
    stpc = "pass1" =>
        \A p \in StPaperIds :
            stdb'[p] # stdb[p] =>
                \E k \in 1..Len(stwork) :
                    stwork[k].db_id = p /\ Truthy(stwork[k].s2_id)

C28_Pass1OnlyListedRows == [][C28_Pass1Step]_vars

\* C28, what bounds the other two passes: a row is written only while its
\* abstract is NULL or '', and only its abstract changes.
C28_FallbackStep ==
    stpc \in {"pass2", "pass3"} =>
        \A p \in StPaperIds :
            stdb'[p] # stdb[p] =>
                /\ stdb[p].abstract \in {NULL, ""}
                /\ stdb'[p] = [stdb[p] EXCEPT !.abstract = stdb'[p].abstract]

C28_FallbackOnlyMissingAbstracts == [][C28_FallbackStep]_vars

\* A finished run that wrote the abstract of a row the input file does not
\* list.
C28_UnlistedRowWritten ==
    /\ stpc = "done"
    /\ \E p \in StPaperIds \ StListed : stdb[p].abstract \in {"A2", "A3"}

(***************************************************************************)
(* C30.  After any sequence of fetch_s2_by_doi calls and server answers,   *)
(* whenever a request is about to be issued the consecutive-429 counter is *)
(* between 0 and 4 and the pacing delay is between 0.2 s and 12.0 s; the   *)
(* counter is changed only by a 429 (plus one, or back to zero by the      *)
(* cooldown) and by a 200 or a 404 (back to zero), never by a 5xx or a     *)
(* network error.                                                          *)
(***************************************************************************)
C30_AtRequest ==
    fpc = "loop" =>
        /\ consecutive_429 \in 0..(CooldownAfter - 1)
        /\ global_delay >= MinDelay
        /\ global_delay <= MaxDelay

C30_CounterStep ==
    consecutive_429' # consecutive_429 =>
        /\ fpc = "await"
        /\ \/ /\ resp' = "429"
              /\ \/ consecutive_429' = consecutive_429 + 1
                 \/ consecutive_429' = 0 /\ slept' = CooldownSleep
           \/ resp' \in {"200", "404"} /\ consecutive_429' = 0

C30_PacingAndCounterBounded == []C30_AtRequest /\ [][C30_CounterStep]_vars

\* A request is about to be issued with the counter at 4 and the delay at
\* 12.0 s, right after a 5xx that changed neither.
C30_Witness ==
    /\ fpc = "loop"
    /\ resp = "5xx"
    /\ consecutive_429 = CooldownAfter - 1
    /\ global_delay = MaxDelay

\* A request is about to be issued with the delay at its floor of 0.2 s.
C30_FloorWitness ==
    /\ fpc = "loop"
    /\ global_delay = MinDelay
    /\ consecutive_429 = 0
====
